---- MODULE Spec2Model ----
(***************************************************************************)
(* ui-binder: the dispatch / lifecycle core.                               *)
(*                                                                         *)
(*   HandlerContext   src/src/models/handler-context.js                    *)
(*   DirectiveParser  src/src/models/directive-parser.js                   *)
(*   EventEmitter     src/dist/ui-binder.bundle.esm.js                     *)
(*   parseDirectives  src/src/models/directive-parser/utils.js             *)
(*   BridgeBase       src/unnamed/part_004                                 *)
(*                                                                         *)
(* The library is single-threaded and synchronous: every public call runs  *)
(* to completion, so each call is one action.  What a call does on the way *)
(* (cleanups run, subscribers invoked, warnings logged, table updates) is  *)
(* recorded, in order, in the variable trace.                              *)
(*                                                                         *)
(* Strings the code takes apart (attribute names and values) are tuples of *)
(* one-character strings.                                                  *)
(***************************************************************************)
EXTENDS Integers, Sequences, FiniteSets, TLC

VARIABLES
    document,       \* the elements of the page: <<[tagName, type, contentEditable, attributes]>>
    signals,        \* the AbortSignals: <<[aborted, listeners]>>, listeners = contexts whose () => this.dispose() is registered
    contexts,       \* the HandlerContexts created so far: <<[signal, unsubscribers]>>
    kinds,          \* kinds[i]: what cleanup closure i does when it is called
    events,         \* EventEmitter.events: category -> listeners, in registration order
    subscribers,    \* subscribers[i]: what listener i does when it is called
    boundElements,  \* BridgeBase.boundElements: element -> context (0: not in the Map)
    calls,          \* every cleanup closure invoked so far, in order
    handles,        \* the closures handed back to the caller so far (unsubscribers, dispose handles), in order
    trace,          \* what the last call did, in order
    last            \* the last call: its name, arguments and outcome

vars == <<document, signals, contexts, kinds, events, subscribers, boundElements, calls, handles, trace, last>>

----------------------------------------------------------------------------
(* Bounds *)

MaxCleanups == 3

----------------------------------------------------------------------------
(* The program state as one value, so that a call is a function on states  *)
(* and calls compose (bindElement calls unbindElement calls dispose).       *)

Store ==
    [document |-> document, signals |-> signals, contexts |-> contexts, kinds |-> kinds, events |-> events,
     subscribers |-> subscribers, boundElements |-> boundElements, calls |-> calls,
     handles |-> handles, trace |-> <<>>, threw |-> FALSE, plan |-> <<>>, ret |-> <<>>,
     depth |-> 0]

Ev(t, a, b, c) == [t |-> t, a |-> a, b |-> b, c |-> c, x |-> <<>>]

EvX(t, a, b, c, x) == [t |-> t, a |-> a, b |-> b, c |-> c, x |-> x]

Log(s, e) == [s EXCEPT !.trace = Append(@, e)]

Commit(s, l) ==
    /\ UNCHANGED document
    /\ signals' = s.signals
    /\ contexts' = s.contexts
    /\ kinds' = s.kinds
    /\ events' = s.events
    /\ subscribers' = s.subscribers
    /\ boundElements' = s.boundElements
    /\ calls' = s.calls
    /\ handles' = s.handles
    /\ trace' = s.trace
    /\ last' = l

Last(op, a, b, s) == [op |-> op, a |-> a, b |-> b, threw |-> s.threw, ret |-> s.ret]

\* the call op(a, b) returns (or throws) in program state s
Return(op, a, b, s) == Commit(s, Last(op, a, b, s))

\* the caller keeps the closure h that the call handed back
keep(s, h) == IF s.threw THEN s ELSE [s EXCEPT !.handles = Append(@, h)]

----------------------------------------------------------------------------
(* Strings: a string is a tuple of one-character strings *)

LowerCase == <<"a", "b", "c", "d", "e", "f", "g", "h", "i", "j", "k", "l", "m", "n", "o", "p", "q", "r", "s", "t", "u", "v", "w", "x", "y", "z">>
UpperCase == <<"A", "B", "C", "D", "E", "F", "G", "H", "I", "J", "K", "L", "M", "N", "O", "P", "Q", "R", "S", "T", "U", "V", "W", "X", "Y", "Z">>
Digits == <<"0", "1", "2", "3", "4", "5", "6", "7", "8", "9">>

IsLower(ch) == \E i \in 1..26 : LowerCase[i] = ch
IsUpper(ch) == \E i \in 1..26 : UpperCase[i] = ch
IsDigit(ch) == \E i \in 1..10 : Digits[i] = ch
IsLetter(ch) == IsLower(ch) \/ IsUpper(ch)

\* String.prototype.toLowerCase, toUpperCase (ASCII)
toLowerCase(str) ==
    [i \in 1..Len(str) |->
        IF IsUpper(str[i]) THEN LowerCase[CHOOSE k \in 1..26 : UpperCase[k] = str[i]] ELSE str[i]]
toUpperCase(str) ==
    [i \in 1..Len(str) |->
        IF IsLower(str[i]) THEN UpperCase[CHOOSE k \in 1..26 : LowerCase[k] = str[i]] ELSE str[i]]

\* String.prototype.startsWith, endsWith
startsWith(str, p) == Len(str) >= Len(p) /\ SubSeq(str, 1, Len(p)) = p
endsWith(str, p) == Len(str) >= Len(p) /\ SubSeq(str, Len(str) - Len(p) + 1, Len(str)) = p

\* String.prototype.substring(n) / slice(n): 0-based start
substring(str, n) == SubSeq(str, n + 1, Len(str))

\* String.prototype.slice(a, b): 0-based, b exclusive, 0 <= a
slice(str, a, b) == SubSeq(str, a + 1, b)

\* String.prototype.indexOf, lastIndexOf for one character: 0-based, -1 if absent
indexOf(str, ch) ==
    IF \E i \in 1..Len(str) : str[i] = ch
    THEN (CHOOSE i \in 1..Len(str) : str[i] = ch /\ \A j \in 1..(i - 1) : str[j] # ch) - 1
    ELSE -1
lastIndexOf(str, ch) ==
    IF \E i \in 1..Len(str) : str[i] = ch
    THEN (CHOOSE i \in 1..Len(str) : str[i] = ch /\ \A j \in (i + 1)..Len(str) : str[j] # ch) - 1
    ELSE -1

\* String.prototype.trim (the white space of the modelled alphabet is " ")
RECURSIVE trimStart(_)
trimStart(str) == IF str # <<>> /\ Head(str) = " " THEN trimStart(Tail(str)) ELSE str
RECURSIVE trimEnd(_)
trimEnd(str) ==
    IF str # <<>> /\ str[Len(str)] = " " THEN trimEnd(SubSeq(str, 1, Len(str) - 1)) ELSE str
trim(str) == trimEnd(trimStart(str))

\* String.prototype.indexOf for a non-empty string: 0-based, -1 if absent
indexOfString(str, pat) ==
    LET at(i) == i + Len(pat) - 1 <= Len(str) /\ SubSeq(str, i, i + Len(pat) - 1) = pat
    IN  IF \E i \in 1..Len(str) : at(i)
        THEN (CHOOSE i \in 1..Len(str) : at(i) /\ \A j \in 1..(i - 1) : ~at(j)) - 1
        ELSE -1

\* String.prototype.includes
includes(str, pat) == indexOfString(str, pat) # -1

\* String.prototype.split(sep), sep a non-empty string: always at least one piece
RECURSIVE split(_, _)
split(str, sep) ==
    LET i == indexOfString(str, sep)
    IN  IF i = -1 THEN <<str>>
        ELSE <<slice(str, 0, i)>> \o split(substring(str, i + Len(sep)), sep)

\* Array.prototype.join(sep)
RECURSIVE join(_, _)
join(parts, sep) ==
    IF parts = <<>> THEN <<>>
    ELSE IF Len(parts) = 1 THEN parts[1]
    ELSE parts[1] \o sep \o join(Tail(parts), sep)

\* String.prototype.replace(/pat/g, rep) for a literal pattern
replaceAll(str, pat, rep) == join(split(str, pat), rep)

\* the longest prefix of str made of characters of the set class
RECURSIVE leadingRun(_, _)
leadingRun(str, class) ==
    IF str # <<>> /\ Head(str) \in class
    THEN <<Head(str)>> \o leadingRun(Tail(str), class)
    ELSE <<>>

\* the characters of str as one string, as a template literal interpolates them
RECURSIVE text(_)
text(str) == IF str = <<>> THEN "" ELSE Head(str) \o text(Tail(str))

\* the argument of one console.warn call: the fixed words of the message and the
\* values interpolated into it
Warning(words, about) == [text |-> words, about |-> about]

\* [A-Za-z0-9]
AlphaNum == {LowerCase[i] : i \in 1..26} \cup {UpperCase[i] : i \in 1..26} \cup {Digits[i] : i \in 1..10}

----------------------------------------------------------------------------
(* Map: insertion-ordered entries <<[key, value]>>, as a JavaScript Map *)

MapHas(m, k) == \E i \in 1..Len(m) : m[i].key = k
MapGet(m, k) == m[CHOOSE i \in 1..Len(m) : m[i].key = k].value
MapSet(m, k, v) ==
    IF MapHas(m, k)
    THEN [i \in 1..Len(m) |-> IF m[i].key = k THEN [key |-> k, value |-> v] ELSE m[i]]
    ELSE Append(m, [key |-> k, value |-> v])
MapKeys(m) == [i \in 1..Len(m) |-> m[i].key]
MapDelete(m, k) == SelectSeq(m, LAMBDA e : e.key # k)

----------------------------------------------------------------------------
(* Directive values: models/directive-value.js, directive-parser/utils.js *)

DIRECTIVE_PREFIXES ==
    [ATTRIBUTE |-> <<"d", "a", "t", "a", "-", "a", "-">>,
     PROPERTY  |-> <<"d", "a", "t", "a", "-", "p", "-">>,
     BEHAVIOR  |-> <<"d", "a", "t", "a", "-", "b", "-">>,
     MODEL     |-> <<"d", "a", "t", "a", "-", "m">>,
     CLASS     |-> <<"d", "a", "t", "a", "-", "c">>]

\* new DirectiveValue()
DirectiveValue == [target |-> <<>>, domProperty |-> <<>>, event |-> <<>>, eventModifiers |-> <<>>]

DigitSet == {Digits[i] : i \in 1..10}
HexSet == DigitSet \cup {"a", "b", "c", "d", "e", "f", "A", "B", "C", "D", "E", "F"}

AllIn(str, class) == str # <<>> /\ \A i \in 1..Len(str) : str[i] \in class

\* !isNaN(Number(arg)) for a trimmed, non-empty arg: the StringNumericLiteral grammar
IsNumeric(arg) ==
    LET signed   == arg # <<>> /\ arg[1] \in {"+", "-"}
        body     == IF signed THEN Tail(arg) ELSE arg
        int      == leadingRun(body, DigitSet)
        r1       == substring(body, Len(int))
        dot      == r1 # <<>> /\ r1[1] = "."
        frac     == IF dot THEN leadingRun(Tail(r1), DigitSet) ELSE <<>>
        r2       == IF dot THEN substring(r1, 1 + Len(frac)) ELSE r1
        mantissa == int # <<>> \/ frac # <<>>
        exp      == r2 # <<>> /\ r2[1] \in {"e", "E"}
        e1       == IF exp THEN Tail(r2) ELSE <<>>
        e2       == IF e1 # <<>> /\ e1[1] \in {"+", "-"} THEN Tail(e1) ELSE e1
        decimal  == mantissa /\ (r2 = <<>> \/ (exp /\ AllIn(e2, DigitSet)))
        radix    == /\ Len(arg) >= 3 /\ arg[1] = "0"
                    /\ \/ arg[2] \in {"x", "X"} /\ AllIn(substring(arg, 2), HexSet)
                       \/ arg[2] \in {"b", "B"} /\ AllIn(substring(arg, 2), {"0", "1"})
                       \/ arg[2] \in {"o", "O"} /\ AllIn(substring(arg, 2), {"0", "1", "2", "3", "4", "5", "6", "7"})
    IN  decimal \/ body = <<"I", "n", "f", "i", "n", "i", "t", "y">> \/ radix

\* the arrow function mapped over the arguments in parseModifiersString
coerceArg(raw) ==
    LET arg == trim(raw)
    IN  IF arg # <<>> /\ IsNumeric(arg) THEN [type |-> "number", text |-> arg]
        ELSE IF toLowerCase(arg) = <<"t", "r", "u", "e">> THEN [type |-> "boolean", text |-> <<"t", "r", "u", "e">>]
        ELSE IF toLowerCase(arg) = <<"f", "a", "l", "s", "e">> THEN [type |-> "boolean", text |-> <<"f", "a", "l", "s", "e">>]
        ELSE IF \/ startsWith(arg, <<"'">>) /\ endsWith(arg, <<"'">>)
                \/ startsWith(arg, <<"\"">>) /\ endsWith(arg, <<"\"">>)
             THEN [type |-> "string", text |-> slice(arg, 1, Len(arg) - 1)]
        ELSE [type |-> "string", text |-> arg]

\* [A-Za-z0-9_-]
ModifierNameChars == AlphaNum \cup {"_", "-"}

\* token.match(/^([A-Za-z0-9_-]+)(?:\(([^)]*)\))?/): <<>> when there is no match,
\* else <<[name, args]>> with args the text of group 2 (<<>> when undefined or empty)
matchModifier(token) ==
    LET name  == leadingRun(token, ModifierNameChars)
        rest  == substring(token, Len(name))
        close == indexOf(rest, ")")
        group == IF rest # <<>> /\ rest[1] = "(" /\ close # -1 THEN slice(rest, 1, close) ELSE <<>>
    IN  IF name = <<>> THEN <<>> ELSE <<[name |-> name, group |-> group]>>

\* parseModifiersString() putting each modifier in front of the earlier ones
parseModifiersStringUnshift(str) ==
    LET tokens == SelectSeq(split(str, <<"#">>), LAMBDA token : Len(token) > 0)
        one(token) ==
            LET m == matchModifier(token)
            IN  IF m = <<>> THEN <<>>
                ELSE LET parts == IF m[1].group # <<>> THEN split(m[1].group, <<",">>) ELSE <<>>
                     IN  <<[name |-> m[1].name, args |-> [i \in 1..Len(parts) |-> coerceArg(parts[i])]]>>
        F[i \in 0..Len(tokens)] == IF i = 0 THEN <<>> ELSE one(tokens[i]) \o F[i - 1]
    IN  F[Len(tokens)]

\* parseModifiersString(str): <<[name, args]>> in the order encountered
parseModifiersString(str) ==
    LET tokens == SelectSeq(split(str, <<"#">>), LAMBDA token : Len(token) > 0)
        one(token) ==
            LET m == matchModifier(token)
            IN  IF m = <<>> THEN <<>>
                ELSE LET parts == IF m[1].group # <<>> THEN split(m[1].group, <<",">>) ELSE <<>>
                     IN  <<[name |-> m[1].name, args |-> [i \in 1..Len(parts) |-> coerceArg(parts[i])]]>>
        F[i \in 0..Len(tokens)] == IF i = 0 THEN <<>> ELSE F[i - 1] \o one(tokens[i])
    IN  F[Len(tokens)]

\* for (let [name, args] of modifiers) directiveValue.eventModifiers.set(name, args)
setModifiers(map, modifiers) ==
    LET F[i \in 0..Len(modifiers)] ==
            IF i = 0 THEN map ELSE MapSet(F[i - 1], modifiers[i].name, modifiers[i].args)
    IN  F[Len(modifiers)]

\* [A-Za-z0-9_.$\-]
TargetChars == AlphaNum \cup {"_", ".", "$", "-"}

\* parseDirectiveValue() matching the target on the untrimmed value
parseDirectiveValueNoTrim(value) ==
    LET rest0  == value
        target == leadingRun(rest0, TargetChars)
        rest   == substring(rest0, Len(target))
        mods   == IF startsWith(rest, <<"#">>) THEN parseModifiersString(substring(rest, 1)) ELSE <<>>
        w1     == IF ~startsWith(rest, <<"#">>) /\ Len(rest) > 0 /\ target # <<>>
                  THEN <<Warning("Unexpected characters in directive value after target", <<text(rest)>>)>>
                  ELSE <<>>
        w2     == IF target = <<>>
                  THEN <<Warning("Could not parse target from directive value", <<text(value)>>)>>
                  ELSE <<>>
    IN  [value    |-> [DirectiveValue EXCEPT !.target = target,
                                             !.eventModifiers = setModifiers(<<>>, mods)],
         warnings |-> w1 \o w2]

\* parseDirectiveValue(value): the DirectiveValue and the console.warn calls made
parseDirectiveValue(value) ==
    LET rest0  == trim(value)
        \* /^([A-Za-z0-9_.$\-]+[A-Za-z0-9_$\-]*)/: the greedy leading run of target characters
        target == leadingRun(rest0, TargetChars)
        rest   == substring(rest0, Len(target))
        mods   == IF startsWith(rest, <<"#">>) THEN parseModifiersString(substring(rest, 1)) ELSE <<>>
        w1     == IF ~startsWith(rest, <<"#">>) /\ Len(rest) > 0 /\ target # <<>>
                  THEN <<Warning("Unexpected characters in directive value after target", <<text(rest)>>)>>
                  ELSE <<>>
        w2     == IF target = <<>>
                  THEN <<Warning("Could not parse target from directive value", <<text(value)>>)>>
                  ELSE <<>>
    IN  [value    |-> [DirectiveValue EXCEPT !.target = target,
                                             !.eventModifiers = setModifiers(<<>>, mods)],
         warnings |-> w1 \o w2]

\* parsers/attribute-directive.js, property-directive.js, behavior-directive.js
parseAttributeDirective(value) == parseDirectiveValue(value)
parsePropertyDirective(value) == parseDirectiveValue(value)
parseBehaviorDirective(value) == parseDirectiveValue(value)

\* parseModelDirective() taking the event after the first '@'
parseModelDirectiveFirstAt(value) ==
    LET atIndex    == indexOf(value, "@")
        event      == IF atIndex # -1 THEN substring(value, atIndex + 1) ELSE <<>>
        rest1      == IF atIndex # -1 THEN slice(value, 0, atIndex) ELSE value
        hashIndex  == indexOf(rest1, "#")
        modifiers  == IF hashIndex # -1 THEN substring(rest1, hashIndex + 1) ELSE <<>>
        rest2      == IF hashIndex # -1 THEN slice(rest1, 0, hashIndex) ELSE rest1
        colonIndex == indexOf(rest2, ":")
    IN  [value    |-> [target |-> IF colonIndex # -1 THEN slice(rest2, 0, colonIndex) ELSE rest2,
                       domProperty |-> IF colonIndex # -1 THEN substring(rest2, colonIndex + 1) ELSE <<>>,
                       event |-> event,
                       eventModifiers |-> IF modifiers # <<>>
                                          THEN setModifiers(<<>>, parseModifiersString(modifiers))
                                          ELSE <<>>],
         warnings |-> <<>>]

\* parseModelDirective(value): no trimming, no warnings
parseModelDirective(value) ==
    LET atIndex    == lastIndexOf(value, "@")
        event      == IF atIndex # -1 THEN substring(value, atIndex + 1) ELSE <<>>
        rest1      == IF atIndex # -1 THEN slice(value, 0, atIndex) ELSE value
        hashIndex  == indexOf(rest1, "#")
        modifiers  == IF hashIndex # -1 THEN substring(rest1, hashIndex + 1) ELSE <<>>
        rest2      == IF hashIndex # -1 THEN slice(rest1, 0, hashIndex) ELSE rest1
        colonIndex == indexOf(rest2, ":")
    IN  [value    |-> [target |-> IF colonIndex # -1 THEN slice(rest2, 0, colonIndex) ELSE rest2,
                       domProperty |-> IF colonIndex # -1 THEN substring(rest2, colonIndex + 1) ELSE <<>>,
                       event |-> event,
                       eventModifiers |-> IF modifiers # <<>>
                                          THEN setModifiers(<<>>, parseModifiersString(modifiers))
                                          ELSE <<>>],
         warnings |-> <<>>]

----------------------------------------------------------------------------
(* Name codec: utils/properties.js *)

DOT_MARKER == <<"_", "_", "D", "O", "T", "_", "M", "A", "R", "K", "E", "R", "_", "_">>

\* part.replace(/-([a-z])/gi, g => g[1].toUpperCase())
RECURSIVE kebabToCamel(_)
kebabToCamel(part) ==
    IF part = <<>> THEN <<>>
    ELSE IF Len(part) >= 2 /\ part[1] = "-" /\ IsLetter(part[2])
         THEN toUpperCase(<<part[2]>>) \o kebabToCamel(substring(part, 2))
         ELSE <<part[1]>> \o kebabToCamel(Tail(part))

\* convertPart() without the '--' escape
convertPartNoEscape(part) == IF Len(part) = 1 THEN part ELSE kebabToCamel(part)

\* one element of parts in attributeNameToPropertyName
convertPart(part) ==
    LET convert(sub) == IF Len(sub) = 1 THEN sub ELSE kebabToCamel(sub)
    IN  IF includes(part, <<"-", "-">>)
        THEN LET subparts == split(part, <<"-", "-">>)
             IN  join([j \in 1..Len(subparts) |-> convert(subparts[j])], <<"-">>)
        ELSE convert(part)

\* attributeNameToPropertyName(attrName, prefix)
attributeNameToPropertyName(attrName, prefix) ==
    IF ~startsWith(attrName, prefix) THEN attrName
    ELSE LET result == replaceAll(substring(attrName, Len(prefix)), <<".", ".">>, DOT_MARKER)
             parts  == split(result, <<".">>)
         IN  replaceAll(join([i \in 1..Len(parts) |-> convertPart(parts[i])], <<".">>),
                        DOT_MARKER, <<".", ".">>)

\* prop.replace() that leaves the capitals without a hyphen
hyphenateUpperNoHyphen(prop) == prop

\* prop.replace(/([A-Z])/g, '-$1')
RECURSIVE hyphenateUpper(_)
hyphenateUpper(prop) ==
    IF prop = <<>> THEN <<>>
    ELSE (IF IsUpper(prop[1]) THEN <<"-", prop[1]>> ELSE <<prop[1]>>) \o hyphenateUpper(Tail(prop))

\* the body of the loop of propertyNameToAttributeName: one element of propPath
convertProp(prop) ==
    toLowerCase(hyphenateUpper(replaceAll(replaceAll(prop, <<"-">>, <<"-", "-">>), <<".">>, <<".", ".">>)))

\* propertyNameToAttributeName(input, prefix) for an array input (propPath = input)
propertyPathToAttributeName(propPath, prefix) ==
    prefix \o join([i \in 1..Len(propPath) |-> convertProp(propPath[i])], <<".">>)

\* propertyNameToAttributeName(input, prefix) for a string input
propertyNameToAttributeName(input, prefix) ==
    propertyPathToAttributeName(split(input, <<".">>), prefix)

\* propertyNameToPath(propertyName)
propertyNameToPath(propertyName) ==
    LET path == split(replaceAll(propertyName, <<".", ".">>, DOT_MARKER), <<".">>)
    IN  [i \in 1..Len(path) |-> replaceAll(path[i], DOT_MARKER, <<".">>)]

\* pathToPropertyName(path) for an array path
pathToPropertyName(path) ==
    replaceAll(join([i \in 1..Len(path) |-> replaceAll(path[i], <<".">>, DOT_MARKER)], <<".">>),
               DOT_MARKER, <<".", ".">>)

----------------------------------------------------------------------------
(* Elements: utils/dom.js, utils/validators.js *)

\* An element is [tagName, type, contentEditable, attributes]: attributes is the
\* element's attribute list <<[key, value]>> in document order; type and
\* contentEditable are the DOM properties of those names ("" when the element has none).

\* getElementAttrs(element)
getElementAttrs(element) ==
    LET a == element.attributes
        F[i \in 0..Len(a)] == IF i = 0 THEN <<>> ELSE MapSet(F[i - 1], a[i].key, a[i].value)
    IN  F[Len(a)]

\* A value that may be null: Null, or Some(x)
Null == <<>>
Some(x) == <<x>>

\* element.getAttribute(name)
getAttribute(element, name) ==
    IF MapHas(element.attributes, name) THEN Some(MapGet(element.attributes, name)) ELSE Null

nativeProps ==
    <<[key |-> <<"c", "o", "n", "t", "e", "n", "t", "e", "d", "i", "t", "a", "b", "l", "e">>, value |-> <<"c", "o", "n", "t", "e", "n", "t", "E", "d", "i", "t", "a", "b", "l", "e">>],
      [key |-> <<"i", "n", "n", "e", "r", "h", "t", "m", "l">>, value |-> <<"i", "n", "n", "e", "r", "H", "T", "M", "L">>],
      [key |-> <<"i", "n", "n", "e", "r", "t", "e", "x", "t">>, value |-> <<"i", "n", "n", "e", "r", "T", "e", "x", "t">>],
      [key |-> <<"o", "u", "t", "e", "r", "h", "t", "m", "l">>, value |-> <<"o", "u", "t", "e", "r", "H", "T", "M", "L">>],
      [key |-> <<"o", "u", "t", "e", "r", "t", "e", "x", "t">>, value |-> <<"o", "u", "t", "e", "r", "T", "e", "x", "t">>],
      [key |-> <<"c", "l", "a", "s", "s", "n", "a", "m", "e">>, value |-> <<"c", "l", "a", "s", "s", "N", "a", "m", "e">>],
      [key |-> <<"t", "e", "x", "t", "c", "o", "n", "t", "e", "n", "t">>, value |-> <<"t", "e", "x", "t", "C", "o", "n", "t", "e", "n", "t">>]>>

\* the names found `in window.Element.prototype` among the lower-case names the
\* model's attributes can give
ElementPrototype == {<<"i", "d">>, <<"h", "i", "d", "d", "e", "n">>, <<"t", "i", "t", "l", "e">>, <<"s", "l", "o", "t">>}

\* isNativePropertyName(name, prefix): the empty string stands for false (both are falsy)
isNativePropertyName(name, prefix) ==
    LET result == toLowerCase(IF startsWith(name, prefix) THEN substring(name, Len(prefix)) ELSE name)
    IN  IF MapHas(nativeProps, result) THEN MapGet(nativeProps, result)
        ELSE IF result \in ElementPrototype THEN result
        ELSE <<>>

supportedTypes ==
    {<<"t", "e", "x", "t">>,
     <<"p", "a", "s", "s", "w", "o", "r", "d">>,
     <<"e", "m", "a", "i", "l">>,
     <<"s", "e", "a", "r", "c", "h">>,
     <<"t", "e", "l">>,
     <<"u", "r", "l">>,
     <<"n", "u", "m", "b", "e", "r">>,
     <<"r", "a", "n", "g", "e">>,
     <<"d", "a", "t", "e">>,
     <<"t", "i", "m", "e">>,
     <<"m", "o", "n", "t", "h">>,
     <<"w", "e", "e", "k">>,
     <<"d", "a", "t", "e", "t", "i", "m", "e", "-", "l", "o", "c", "a", "l">>,
     <<"c", "o", "l", "o", "r">>,
     <<"c", "h", "e", "c", "k", "b", "o", "x">>,
     <<"r", "a", "d", "i", "o">>}

\* isValidForTwoWayBinding(element)
isValidForTwoWayBinding(element) ==
    IF element.tagName \in {"TEXTAREA", "SELECT"} THEN TRUE
    ELSE IF element.tagName = "INPUT" THEN element.type \in supportedTypes
    ELSE IF element.contentEditable = <<"t", "r", "u", "e">> THEN TRUE
    ELSE getAttribute(element, <<"r", "o", "l", "e">>) = Some(<<"t", "e", "x", "t", "b", "o", "x">>)

----------------------------------------------------------------------------
(* The scanner: directive-parser/parsers/class-directive.js, directive-parser/utils.js *)

\* new ClassDirectiveValue()
ClassDirectiveValue == [reactiveClasses |-> <<>>, computedClass |-> Null]

\* new ParsedDirectives()
ParsedDirectives ==
    [attributeDirectives |-> <<>>, propertyDirectives |-> <<>>, behaviorDirectives |-> <<>>,
     modelDirective |-> Null, classDirective |-> Null]

CLASS_DASH == DIRECTIVE_PREFIXES.CLASS \o <<"-">>

\* the fixed words of the warning about an element with data-c and data-c-*
CLASS_CONFLICT == "Element has both data-c and data-c-* attributes. Only data-c will be used. Ignored attributes"

\* result.computedClass = parseDirectiveValue(dataCValue), and the warning about the
\* ignored data-c-* attributes
setComputedClass(computed, dataCStar) ==
    [value    |-> [ClassDirectiveValue EXCEPT !.computedClass = Some(computed.value)],
     warnings |-> computed.warnings \o
                  (IF Len(dataCStar) > 0
                   THEN <<Warning(CLASS_CONFLICT,
                                  [i \in 1..Len(dataCStar) |-> text(dataCStar[i].key)])>>
                   ELSE <<>>)]

\* result.reactiveClasses.set(className, parseDirectiveValue(value))
setReactiveClass(acc, className, r) ==
    [value |-> MapSet(acc.value, className, r.value), warnings |-> acc.warnings \o r.warnings]

\* the loop over the data-c-* attributes
RECURSIVE setReactiveClasses(_, _, _)
setReactiveClasses(acc, dataCStar, i) ==
    IF i > Len(dataCStar) THEN acc
    ELSE setReactiveClasses(
             setReactiveClass(acc, substring(dataCStar[i].key, Len(DIRECTIVE_PREFIXES.CLASS) + 1),
                              parseDirectiveValue(dataCStar[i].value)),
             dataCStar, i + 1)

useReactiveClasses(classes) ==
    [value    |-> [ClassDirectiveValue EXCEPT !.reactiveClasses = classes.value],
     warnings |-> classes.warnings]

\* parseClassDirectives() testing the value of data-c without trimming it
parseClassDirectivesNoTrim(attributes) ==
    LET hasDataC    == MapHas(attributes, DIRECTIVE_PREFIXES.CLASS)
        dataCValue  == IF hasDataC THEN MapGet(attributes, DIRECTIVE_PREFIXES.CLASS) ELSE <<>>
        dataCStar   == SelectSeq(attributes, LAMBDA e : startsWith(e.key, CLASS_DASH))
    IN  IF hasDataC /\ Len(dataCValue) > 0
        THEN setComputedClass(parseDirectiveValue(dataCValue), dataCStar)
        ELSE useReactiveClasses(
                 setReactiveClasses([value |-> <<>>, warnings |-> <<>>], dataCStar, 1))

\* parseClassDirectives(attributes): the ClassDirectiveValue and the console.warn calls
parseClassDirectives(attributes) ==
    LET hasDataC    == MapHas(attributes, DIRECTIVE_PREFIXES.CLASS)
        dataCValue  == IF hasDataC THEN trim(MapGet(attributes, DIRECTIVE_PREFIXES.CLASS)) ELSE <<>>
        dataCStar   == SelectSeq(attributes, LAMBDA e : startsWith(e.key, CLASS_DASH))
    IN  IF hasDataC /\ Len(dataCValue) > 0
        THEN setComputedClass(parseDirectiveValue(dataCValue), dataCStar)
        ELSE useReactiveClasses(
                 setReactiveClasses([value |-> <<>>, warnings |-> <<>>], dataCStar, 1))

\* `${DIRECTIVE_PREFIXES.MODEL} is not valid on ${element.tagName}${element.type ? `[type="${element.type}"]` : ''}`
modelWarning(element) ==
    Warning("data-m is not valid on",
            <<element.tagName>> \o (IF element.type # <<>> THEN <<text(element.type)>> ELSE <<>>))

\* one turn of the for..of loop of parseDirectives: acc is [value, warnings, hasClassDirective]
scanAttribute(element, acc, name, value) ==
    LET put(field, key, r) ==
            [acc EXCEPT !.value[field] = MapSet(@, key, r.value), !.warnings = @ \o r.warnings]
    IN  IF startsWith(name, DIRECTIVE_PREFIXES.ATTRIBUTE)
        THEN put("attributeDirectives", substring(name, Len(DIRECTIVE_PREFIXES.ATTRIBUTE)),
                 parseAttributeDirective(value))
        ELSE IF startsWith(name, DIRECTIVE_PREFIXES.PROPERTY)
        THEN LET nativeProp == isNativePropertyName(name, DIRECTIVE_PREFIXES.PROPERTY)
             IN  IF nativeProp # <<>>
                 THEN put("propertyDirectives", nativeProp, parseDirectiveValue(value))
                 ELSE put("propertyDirectives",
                          attributeNameToPropertyName(name, DIRECTIVE_PREFIXES.PROPERTY),
                          parsePropertyDirective(value))
        ELSE IF startsWith(name, DIRECTIVE_PREFIXES.BEHAVIOR)
        THEN put("behaviorDirectives", substring(name, Len(DIRECTIVE_PREFIXES.BEHAVIOR)),
                 parseBehaviorDirective(value))
        ELSE IF name = DIRECTIVE_PREFIXES.MODEL
        THEN IF ~isValidForTwoWayBinding(element)
             THEN [acc EXCEPT !.warnings = Append(@, modelWarning(element))]
             ELSE [acc EXCEPT !.value.modelDirective = Some(parseModelDirective(value).value)]
        ELSE IF startsWith(name, CLASS_DASH) \/ name = DIRECTIVE_PREFIXES.CLASS
        THEN [acc EXCEPT !.hasClassDirective = TRUE]
        ELSE acc

\* the for..of loop of parseDirectives
RECURSIVE scanAttributes(_, _, _, _)
scanAttributes(element, acc, attributes, i) ==
    IF i > Len(attributes) THEN acc
    ELSE scanAttributes(element,
                        scanAttribute(element, acc, attributes[i].key, attributes[i].value),
                        attributes, i + 1)

\* directives.classDirective = parseClassDirectives(attributes)
setClassDirective(scanned, class) ==
    [value    |-> [scanned.value EXCEPT !.classDirective = Some(class.value)],
     warnings |-> scanned.warnings \o class.warnings]

\* the end of parseDirectives: if (hasClassDirective) ...; return directives
scanClass(scanned, attributes) ==
    IF scanned.hasClassDirective
    THEN setClassDirective(scanned, parseClassDirectives(attributes))
    ELSE [value |-> scanned.value, warnings |-> scanned.warnings]

\* parseDirectives(element, attributes) given the attributes
parseAttributes(element, attributes) ==
    scanClass(scanAttributes(element,
                             [value |-> ParsedDirectives, warnings |-> <<>>, hasClassDirective |-> FALSE],
                             attributes, 1),
              attributes)

\* parseDirectives(element, attributes = null): the ParsedDirectives and the console.warn calls
parseDirectives(element) == parseAttributes(element, getElementAttrs(element))

----------------------------------------------------------------------------
(* HandlerContext *)

\* new HandlerContext(state, { config, signal }): signal 0 is null
HandlerContext(signal) == [signal |-> signal, unsubscribers |-> <<>>]

\* get isActive() returning this.signal && !this.signal.aborted
isActiveNeedsSignal(s, c) ==
    LET g == s.contexts[c].signal IN g # 0 /\ ~s.signals[g].aborted

\* get isActive()
isActive(s, c) ==
    LET g == s.contexts[c].signal IN g = 0 \/ ~s.signals[g].aborted

\* addCleanup() adding the abort listener whether or not the signal has fired
addCleanupListensAlways(s, c, k) ==
    LET fn == Len(s.kinds) + 1
        g  == s.contexts[c].signal
        s1 == [s EXCEPT !.kinds = Append(@, k),
                        !.contexts[c].unsubscribers = Append(@, fn)]
    IN  IF g # 0
        THEN [s1 EXCEPT !.signals[g].listeners = Append(@, c)]
        ELSE s1

\* addCleanup(cleanupFn): cleanupFn is a fresh closure of kind k
addCleanup(s, c, k) ==
    LET fn == Len(s.kinds) + 1
        g  == s.contexts[c].signal
        s1 == [s EXCEPT !.kinds = Append(@, k),
                        !.contexts[c].unsubscribers = Append(@, fn)]
    IN  IF g # 0 /\ ~s1.signals[g].aborted
        THEN [s1 EXCEPT !.signals[g].listeners = Append(@, c)]
        ELSE s1

\* how many calls of dispose() nested in one another the call stack holds: the
\* call that would go deeper throws a RangeError
MaxStack == 2

RECURSIVE dispose(_, _)

\* a cleanup closure that calls dispose() on its own context
callDispose(s, c) ==
    IF s.depth >= MaxStack THEN [s EXCEPT !.threw = TRUE]
    ELSE [dispose([s EXCEPT !.depth = @ + 1], c) EXCEPT !.depth = s.depth]

\* one cleanup closure called: an "ok" closure returns, a "throw" closure throws,
\* an "addCleanup" closure registers an "ok" closure on its own context, and a
\* "dispose" closure calls dispose() on its own context
callCleanup(s, c, fn) ==
    LET s1 == [Log(s, Ev("cleanup", c, fn, 0)) EXCEPT !.calls = Append(@, fn)]
    IN  IF s1.kinds[fn] = "throw" THEN [s1 EXCEPT !.threw = TRUE]
        ELSE IF s1.kinds[fn] = "addCleanup" THEN addCleanup(s1, c, "ok")
        ELSE IF s1.kinds[fn] = "dispose" THEN callDispose(s1, c)
        ELSE s1

\* the body of forEach in dispose(): try { fn() } catch (error) { console.warn(...) }
tryCleanup(s, c, fn) ==
    LET s1 == callCleanup(s, c, fn)
    IN  IF s1.threw
        THEN [Log(s1, Ev("warn", c, fn, 0)) EXCEPT !.threw = FALSE]
        ELSE s1

\* this.unsubscribers.forEach(...), over the elements u[i..] of the array
RECURSIVE forEachUnsubscriber(_, _, _, _)
forEachUnsubscriber(s, c, u, i) ==
    IF i > Len(u) \/ s.threw THEN s
    ELSE forEachUnsubscriber(tryCleanup(s, c, u[i]), c, u, i + 1)

RECURSIVE forEachReversed(_, _, _, _)
forEachReversed(s, c, u, i) ==
    IF i < 1 \/ s.threw THEN s
    ELSE forEachReversed(tryCleanup(s, c, u[i]), c, u, i - 1)

RECURSIVE forEachNoCatch(_, _, _, _)
forEachNoCatch(s, c, u, i) ==
    IF i > Len(u) \/ s.threw THEN s
    ELSE forEachNoCatch(callCleanup(s, c, u[i]), c, u, i + 1)

\* dispose() iterating the array from its end
disposeReversed(s, c) ==
    LET u  == s.contexts[c].unsubscribers
        s1 == forEachReversed(Log(s, Ev("dispose", c, 0, 0)), c, u, Len(u))
    IN  [s1 EXCEPT !.contexts[c].unsubscribers = <<>>]

\* dispose() without this.unsubscribers = []
disposeKeepsList(s, c) ==
    forEachUnsubscriber(Log(s, Ev("dispose", c, 0, 0)), c, s.contexts[c].unsubscribers, 1)

\* dispose() without the try/catch around fn()
disposeNoCatch(s, c) ==
    LET u  == s.contexts[c].unsubscribers
        s1 == forEachNoCatch(Log(s, Ev("dispose", c, 0, 0)), c, u, 1)
    IN  IF s1.threw THEN s1 ELSE [s1 EXCEPT !.contexts[c].unsubscribers = <<>>]

\* dispose() marking the context's signal as aborted when it is done
disposeAborts(s, c) ==
    LET u  == s.contexts[c].unsubscribers
        g  == s.contexts[c].signal
        s1 == forEachUnsubscriber(Log(s, Ev("dispose", c, 0, 0)), c, u, 1)
        s2 == [s1 EXCEPT !.contexts[c].unsubscribers = <<>>]
    IN  IF g # 0 THEN [s2 EXCEPT !.signals[g].aborted = TRUE] ELSE s2

\* dispose()
dispose(s, c) ==
    LET u  == s.contexts[c].unsubscribers
        s1 == forEachUnsubscriber(Log(s, Ev("dispose", c, 0, 0)), c, u, 1)
    IN  IF s1.threw THEN s1 ELSE [s1 EXCEPT !.contexts[c].unsubscribers = <<>>]

\* The 'abort' event dispatched to the listeners l[i..] that addCleanup registered
\* with { once: true }: each is removed, then called, in registration order.
RECURSIVE dispatchAbort(_, _, _, _)
dispatchAbort(s, g, l, i) ==
    IF i > Len(l) THEN s
    ELSE LET s1 == [s EXCEPT !.signals[g].listeners = SubSeq(l, i + 1, Len(l))]
             s2 == dispose(s1, l[i])
         IN  dispatchAbort([s2 EXCEPT !.threw = FALSE], g, l, i + 1)

\* AbortController.abort(): a signal fires once, a second abort() does nothing
abort(s, g) ==
    IF s.signals[g].aborted THEN s
    ELSE dispatchAbort([s EXCEPT !.signals[g].aborted = TRUE], g, s.signals[g].listeners, 1)

----------------------------------------------------------------------------
(* EventEmitter (@supercat1337/event-emitter, as bundled) and DirectiveParser *)

\* EVENTS: the categories, numbered in the order processElement emits them
EVENTS == <<"modelDirective", "attributeDirective", "propertyDirective", "classDirective",
            "behaviorDirective">>

Category(name) == CHOOSE cat \in 1..5 : EVENTS[cat] = name

\* the closure on() returns: function() { that.removeListener(event, listener) }
unsubscriber(cat, l) == [t |-> "removeListener", a |-> cat, b |-> l]

\* this.events[event].push(listener); return unsubscriber
push(s, cat, l) == [s EXCEPT !.events[cat] = Append(@, l), !.ret = unsubscriber(cat, l)]

\* on(event, listener): listener is a fresh closure of kind k
on(s, cat, k) == push([s EXCEPT !.subscribers = Append(@, k)], cat, Len(s.subscribers) + 1)

\* on(event, listener): listener is a function that on() was already given
onAgain(s, cat, l) == push(s, cat, l)

\* listeners.splice(idx, 1): idx is 0-based
splice(listeners, idx) == SubSeq(listeners, 1, idx) \o SubSeq(listeners, idx + 2, Len(listeners))

\* listeners.indexOf(listener), listeners.lastIndexOf(listener): 0-based, -1 if absent
indexOfListener(listeners, listener) ==
    IF \E i \in 1..Len(listeners) : listeners[i] = listener
    THEN (CHOOSE i \in 1..Len(listeners) :
              listeners[i] = listener /\ \A j \in 1..(i - 1) : listeners[j] # listener) - 1
    ELSE -1

lastIndexOfListener(listeners, listener) ==
    IF \E i \in 1..Len(listeners) : listeners[i] = listener
    THEN (CHOOSE i \in 1..Len(listeners) :
              listeners[i] = listener /\ \A j \in (i + 1)..Len(listeners) : listeners[j] # listener) - 1
    ELSE -1

\* if (idx > -1) this.events[event].splice(idx, 1)
spliceAt(s, cat, idx) ==
    IF idx > -1
    THEN [Log(s, Ev("events.splice", cat, idx, 0)) EXCEPT !.events[cat] = splice(@, idx)]
    ELSE s

\* removeListener() looking for the listener from the end of the array
removeListenerLast(s, cat, listener) ==
    spliceAt(s, cat, lastIndexOfListener(s.events[cat], listener))

\* removeListener(event, listener)
removeListener(s, cat, listener) ==
    spliceAt(s, cat, indexOfListener(s.events[cat], listener))

\* What calling listener l does.  A "returns" listener returns, a "throws" listener
\* throws and an "unsubscribes" listener calls the unsubscribe function that on()
\* returned for it; the listeners the BridgeBase constructor registers call the method of the
\* bridge named by their kind, and the subclass's method registers on the handler
\* context the cleanups s.plan gives for the category.
RECURSIVE addCleanups(_, _, _, _)
addCleanups(s, c, ks, i) ==
    IF i > Len(ks) THEN s ELSE addCleanups(addCleanup(s, c, ks[i]), c, ks, i + 1)

\* that.attributeDirectivesCallback(element, directives, handlerContext) and the
\* like, as a subclass of BridgeBase overrides them
callMethod(s, method, cat, el, payload, c) ==
    addCleanups(Log(s, EvX(method, cat, el, c, payload)), c, s.plan[cat], 1)

callListener(s, cat, l, el, payload, c) ==
    LET s1 == Log(s, EvX("callback", cat, l, c, [element |-> el, directives |-> payload]))
        k  == s1.subscribers[l]
    IN  IF k = "returns" THEN s1
        ELSE IF k = "throws" THEN [s1 EXCEPT !.threw = TRUE]
        ELSE IF k = "unsubscribes" THEN removeListener(s1, cat, l)
        ELSE callMethod(s1, k, cat, el, payload, c)

\* the body of the loop of emit(): listeners[i].apply(this, args) in try/catch; the
\* array is read live, and an index past its end holds undefined, whose .apply throws
tryListener(s, cat, i, el, payload, c) ==
    LET listeners == s.events[cat]
        s1 == IF i <= Len(listeners) THEN callListener(s, cat, listeners[i], el, payload, c)
              ELSE [s EXCEPT !.threw = TRUE]
    IN  IF s1.threw
        THEN [Log(s1, Ev("console.error", cat, IF i <= Len(listeners) THEN listeners[i] ELSE 0, c))
                EXCEPT !.threw = FALSE]
        ELSE s1

RECURSIVE emitFrom(_, _, _, _, _, _, _)
emitFrom(s, cat, i, length, el, payload, c) ==
    IF i > length THEN s
    ELSE emitFrom(tryListener(s, cat, i, el, payload, c), cat, i + 1, length, el, payload, c)

RECURSIVE emitNoCatchFrom(_, _, _, _, _, _, _)
emitNoCatchFrom(s, cat, i, length, el, payload, c) ==
    IF i > length \/ s.threw THEN s
    ELSE emitNoCatchFrom(callListener(s, cat, s.events[cat][i], el, payload, c),
                         cat, i + 1, length, el, payload, c)

RECURSIVE emitReversedFrom(_, _, _, _, _, _)
emitReversedFrom(s, cat, i, el, payload, c) ==
    IF i < 1 THEN s
    ELSE emitReversedFrom(tryListener(s, cat, i, el, payload, c), cat, i - 1, el, payload, c)

\* emit() without the try/catch around the listener
emitNoCatch(s, cat, el, payload, c) ==
    emitNoCatchFrom(s, cat, 1, Len(s.events[cat]), el, payload, c)

\* emit() calling the listeners last to first
emitReversed(s, cat, el, payload, c) ==
    emitReversedFrom(s, cat, Len(s.events[cat]), el, payload, c)

\* emit(event, ...args)
emit(s, cat, el, payload, c) ==
    emitFrom(s, cat, 1, Len(s.events[cat]), el, payload, c)

\* one `if (...) this.eventEmitter.emit(...)` of processElement
emitIf(s, present, cat, el, payload, c) ==
    IF present /\ ~s.threw THEN emit(s, cat, el, payload, c) ELSE s

RECURSIVE logWarnings(_, _, _)
logWarnings(s, w, i) ==
    IF i > Len(w) THEN s ELSE logWarnings(Log(s, EvX("console.warn", 0, 0, 0, w[i])), w, i + 1)

\* return { directives: parsedDirectives, context }
returnProcessed(s, d, c) ==
    IF s.threw THEN s ELSE [s EXCEPT !.ret = [directives |-> d, context |-> c]]

\* the body of processElement() with the attribute category emitted before the model category
dispatchAttributeFirst(s, el, d, c) ==
    LET s1 == emitIf(s, Len(d.attributeDirectives) > 0, Category("attributeDirective"), el, d.attributeDirectives, c)
        s2 == emitIf(s1, d.modelDirective # Null, Category("modelDirective"), el, d.modelDirective, c)
        s3 == emitIf(s2, Len(d.propertyDirectives) > 0, Category("propertyDirective"), el, d.propertyDirectives, c)
        s4 == emitIf(s3, d.classDirective # Null, Category("classDirective"), el, d.classDirective, c)
        s5 == emitIf(s4, Len(d.behaviorDirectives) > 0, Category("behaviorDirective"), el, d.behaviorDirectives, c)
    IN  returnProcessed(s5, d, c)

\* the body of processElement() once the element is parsed and the context built:
\* the five `if (...) this.eventEmitter.emit(...)` in their order, and the return
dispatch(s, el, d, c) ==
    LET s1 == emitIf(s, d.modelDirective # Null, Category("modelDirective"), el, d.modelDirective, c)
        s2 == emitIf(s1, Len(d.attributeDirectives) > 0, Category("attributeDirective"), el, d.attributeDirectives, c)
        s3 == emitIf(s2, Len(d.propertyDirectives) > 0, Category("propertyDirective"), el, d.propertyDirectives, c)
        s4 == emitIf(s3, d.classDirective # Null, Category("classDirective"), el, d.classDirective, c)
        s5 == emitIf(s4, Len(d.behaviorDirectives) > 0, Category("behaviorDirective"), el, d.behaviorDirectives, c)
    IN  returnProcessed(s5, d, c)

\* let parsedDirectives = parseDirectives(element); const context = new HandlerContext(...)
withContext(s, parsed, signal) ==
    [logWarnings(s, parsed.warnings, 1) EXCEPT !.contexts = Append(@, HandlerContext(signal))]

\* processElement() emitting the attribute category before the model category
processElementAttributeFirst(s, el, signal) ==
    dispatchAttributeFirst(withContext(s, parseDirectives(s.document[el]), signal), el,
                           parseDirectives(s.document[el]).value, Len(s.contexts) + 1)

\* processElement() once parseDirectives(element) has returned parsed
processParsed(s, el, signal, parsed) ==
    dispatch(withContext(s, parsed, signal), el, parsed.value, Len(s.contexts) + 1)

\* processElement(element, state, userOptions): s.ret is what it returns
processElement(s, el, signal) ==
    processParsed(s, el, signal, parseDirectives(s.document[el]))

----------------------------------------------------------------------------
(* BridgeBase *)

\* constructor(): boundElements is an empty Map, and the parser gets one listener
\* for each of the four registrations, in this order
BridgeBase(s) ==
    LET s1 == on(s, Category("attributeDirective"), "attributeDirectivesCallback")
        s2 == on(s1, Category("modelDirective"), "modelDirectiveCallback")
        s3 == on(s2, Category("propertyDirective"), "propertyDirectivesCallback")
        s4 == on(s3, Category("classDirective"), "classDirectiveCallback")
    IN  [s4 EXCEPT !.boundElements = <<>>]

\* isStateCompatible(state) of the subclass: null and objects are accepted
isStateCompatible(state) == state = "null" \/ state = "object"

\* unbindElement(element)
unbindElement(s, el) ==
    IF MapHas(s.boundElements, el)
    THEN LET c  == MapGet(s.boundElements, el)
             s1 == dispose(s, c)
         IN  IF s1.threw THEN s1
             ELSE [Log(s1, Ev("boundElements.delete", el, c, 0))
                     EXCEPT !.boundElements = MapDelete(@, el)]
    ELSE s

\* the closure bindElement() returns as dispose: () => this.unbindElement(element)
disposeHandle(el) == [t |-> "unbindElement", a |-> el, b |-> 0]

\* a closure handed back by on() or by bindElement(), called
callHandle(s, h) ==
    IF h.t = "removeListener" THEN removeListener(s, h.a, h.b) ELSE unbindElement(s, h.a)

\* dispose() of BridgeBase: for (const [element] of this.boundElements) this.unbindElement(element).
\* The Map iterator is live: once the entry at position i is deleted, the next entry is at i.
RECURSIVE forOfBound(_, _)
forOfBoundNext(s, el, i) == forOfBound(s, IF MapHas(s.boundElements, el) THEN i + 1 ELSE i)

forOfBound(s, i) ==
    IF i > Len(s.boundElements) \/ s.threw THEN s
    ELSE forOfBoundNext(unbindElement(s, s.boundElements[i].key), s.boundElements[i].key, i)

\* the loop of dispose() stepping over the entry that follows a deleted one
RECURSIVE forOfBoundSkips(_, _)
forOfBoundSkips(s, i) ==
    IF i > Len(s.boundElements) \/ s.threw THEN s
    ELSE forOfBoundSkips(unbindElement(s, s.boundElements[i].key), i + 1)

disposeBridgeSkips(s) == forOfBoundSkips(s, 1)

\* dispose() of BridgeBase
disposeBridge(s) == forOfBound(s, 1)

\* this.boundElements.set(element, result.context); return {context, directives, dispose}
setBound(s, el) ==
    IF s.threw THEN s
    ELSE [Log(s, Ev("boundElements.set", el, s.ret.context, 0))
            EXCEPT !.boundElements = MapSet(@, el, s.ret.context),
                   !.ret = [context |-> s.ret.context, directives |-> s.ret.directives,
                            dispose |-> disposeHandle(el)]]

\* if (this.boundElements.has(element)) this.unbindElement(element)
unbindIfBound(s, el) ==
    IF ~s.threw /\ MapHas(s.boundElements, el) THEN unbindElement(s, el) ELSE s

\* throw new Error(`State is not compatible with bridge ...`)
throwIncompatible(s, el) == [Log(s, Ev("throw", el, 0, 0)) EXCEPT !.threw = TRUE]

\* bindElement() that unbinds the previous binding only after processing the element
bindElementUnbindsLate(s, el, state, signal) ==
    IF ~isStateCompatible(state)
    THEN throwIncompatible(s, el)
    ELSE setBound(unbindIfBound(processElement(s, el, signal), el), el)

\* bindElement() that tests the state only after unbinding the previous binding
bindElementChecksLate(s, el, state, signal) ==
    IF ~isStateCompatible(state)
    THEN throwIncompatible(unbindIfBound(s, el), el)
    ELSE setBound(processElement(unbindIfBound(s, el), el, signal), el)

\* bindElement(element, state, options): s.ret is what it returns
bindElement(s, el, state, signal) ==
    IF ~isStateCompatible(state)
    THEN throwIncompatible(s, el)
    ELSE setBound(processElement(unbindIfBound(s, el), el, signal), el)

----------------------------------------------------------------------------
(* A HandlerContext on its own: context 1, built with no signal, with a     *)
(* signal that has not fired, or with a signal that has already fired.      *)

NoEvents == [cat \in 1..5 |-> <<>>]

InitCtx ==
    /\ \E sig \in 0..1, fired \in BOOLEAN :
          /\ signals = <<[aborted |-> fired, listeners |-> <<>>]>>
          /\ contexts = <<HandlerContext(sig)>>
          /\ last = Last("new", sig, 0, [threw |-> FALSE, ret |-> <<>>])
    /\ document = <<>>
    /\ kinds = <<>>
    /\ events = NoEvents
    /\ subscribers = <<>>
    /\ boundElements = <<>>
    /\ calls = <<>>
    /\ handles = <<>>
    /\ trace = <<>>

AddCleanup ==
    /\ Len(kinds) < MaxCleanups
    /\ \E k \in {"ok", "throw"} :
          LET s == addCleanup(Store, 1, k) IN Commit(s, Last("addCleanup", 1, Len(s.kinds), s))

Dispose ==
    /\ contexts # <<>>
    /\ LET s == dispose(Store, 1) IN Commit(s, Last("dispose", 1, 0, s))

Abort ==
    /\ ~signals[1].aborted
    /\ LET s == abort(Store, 1) IN Commit(s, Last("abort", 1, 0, s))

NextCtx == AddCleanup \/ Dispose \/ Abort

SpecCtx == InitCtx /\ [][NextCtx]_vars

----------------------------------------------------------------------------
(* What a trace shows *)

Of(tr, t) == SelectSeq(tr, LAMBDA e : e.t = t)

\* the cleanup closures a trace shows invoked, in order
Invoked(tr) == [i \in 1..Len(Of(tr, "cleanup")) |-> Of(tr, "cleanup")[i].b]

\* the cleanup closures a trace shows logged by console.warn, in order
Warned(tr) == [i \in 1..Len(Of(tr, "warn")) |-> Of(tr, "warn")[i].b]

\* how many times a trace shows dispose() entered
Disposals(tr) == Len(Of(tr, "dispose"))

Range(f) == {f[i] : i \in DOMAIN f}

Occurrences(f, x) == Cardinality({i \in DOMAIN f : f[i] = x})

Throwing(u) == SelectSeq(u, LAMBDA fn : kinds[fn] = "throw")

----------------------------------------------------------------------------
(* Claims about HandlerContext, checked under SpecCtx *)

\* C1: dispose() invokes every cleanup queued at the call, in the order the
\* cleanups were added, and the cleanup list is empty when it returns.
C1_DisposeRunsQueueInOrder ==
    [][last'.op = "dispose" =>
          /\ Invoked(trace') = contexts[1].unsubscribers
          /\ contexts'[1].unsubscribers = <<>>]_vars

C1_Witness ==
    /\ last.op = "dispose"
    /\ Len(Invoked(trace)) = 3
    /\ contexts[1].unsubscribers = <<>>

\* C2: a context built with a token that has not fired has dispose() invoked
\* exactly once when the token fires, whatever the number of addCleanup calls.
C2_AbortDisposesExactlyOnce ==
    (last.op = "abort" /\ contexts[1].signal = 1) => Disposals(trace) = 1

\* C3: every registered cleanup is invoked at most once: a dispose() with nothing
\* queued invokes nothing and does not throw, the token firing invokes no cleanup
\* that has already run, and a cleanup is not run when it is added, only by a
\* later disposal.
C3_CleanupAtMostOnce ==
    [][/\ \A fn \in 1..Len(kinds') : Occurrences(calls', fn) <= 1
       /\ \A fn \in Range(contexts'[1].unsubscribers) : Occurrences(calls', fn) = 0
       /\ (last'.op = "dispose" /\ contexts[1].unsubscribers = <<>>) =>
              (Invoked(trace') = <<>> /\ ~last'.threw /\ calls' = calls)
       /\ last'.op = "abort" => Range(Invoked(trace')) \cap Range(calls) = {}
       /\ last'.op = "addCleanup" =>
              (calls' = calls /\ last'.b \in Range(contexts'[1].unsubscribers))]_vars

C3_Witness ==
    /\ last.op = "abort"
    /\ contexts[1].signal = 1
    /\ Disposals(trace) >= 1
    /\ Invoked(trace) = <<>>
    /\ Len(calls) >= 2

\* C4: a cleanup that throws during dispose() is caught and logged, the cleanups
\* queued after it are still invoked, dispose() does not throw and the cleanup
\* list is empty afterwards.
C4_ThrowingCleanupIsContained ==
    [][(last'.op = "dispose" /\ Throwing(contexts[1].unsubscribers) # <<>>) =>
          /\ ~last'.threw
          /\ Warned(trace') = Throwing(contexts[1].unsubscribers)
          /\ Invoked(trace') = contexts[1].unsubscribers
          /\ contexts'[1].unsubscribers = <<>>]_vars

C4_Witness ==
    /\ last.op = "dispose"
    /\ ~last.threw
    /\ Len(trace) >= 4
    /\ trace[2].t = "cleanup" /\ trace[3].t = "warn" /\ trace[4].t = "cleanup"
    /\ contexts[1].unsubscribers = <<>>

----------------------------------------------------------------------------
(* A DirectiveParser on its own: one element, drawn from every combination   *)
(* of the directive attributes below (data-m on an element that accepts      *)
(* two-way binding and on one that does not); subscribers are registered;    *)
(* the element is processed.                                                 *)

MaxSubscribers == 2
MaxProcessed == 1

\* <input type="text"> and <div>
Tags ==
    {[tagName |-> "INPUT", type |-> <<"t", "e", "x", "t">>, contentEditable |-> <<"i", "n", "h", "e", "r", "i", "t">>],
     [tagName |-> "DIV", type |-> <<>>, contentEditable |-> <<"i", "n", "h", "e", "r", "i", "t">>]}

\* the attributes an element of the model may carry, in document order; data-c is
\* given with an empty value and with a class expression
AttributePool(dataC) ==
    <<[key |-> <<"c", "l", "a", "s", "s">>, value |-> <<"b", "i", "g">>],
      [key |-> <<"d", "a", "t", "a", "-", "a", "-", "t", "i", "t", "l", "e">>, value |-> <<"t">>],
      [key |-> <<"d", "a", "t", "a", "-", "p", "-", "v", "a", "l", "u", "e">>, value |-> <<"v">>],
      [key |-> <<"d", "a", "t", "a", "-", "b", "-", "s", "h", "o", "w">>, value |-> <<"s">>],
      [key |-> <<"d", "a", "t", "a", "-", "m">>, value |-> <<"m">>],
      [key |-> <<"d", "a", "t", "a", "-", "c">>, value |-> dataC],
      [key |-> <<"d", "a", "t", "a", "-", "c", "-", "a", "c", "t", "i", "v", "e">>, value |-> <<"o", "n">>]>>

Chosen(pool, S) == SelectSeq(pool, LAMBDA a : \E i \in S : pool[i] = a)

\* the tag matters to an element that has data-m, the value of data-c to one that has data-c
Shapes ==
    {x \in (SUBSET (2..7)) \X Tags \X {<<>>, <<"c", "l", "s">>} :
        /\ x[2].tagName = "DIV" \/ 5 \in x[1]
        /\ x[3] = <<>> \/ 6 \in x[1]}

Elements ==
    {[tagName |-> x[2].tagName, type |-> x[2].type, contentEditable |-> x[2].contentEditable,
      attributes |-> Chosen(AttributePool(x[3]), x[1] \cup {1})] : x \in Shapes}

InitParser ==
    /\ \E element \in Elements : document = <<element>>
    /\ signals = <<>>
    /\ contexts = <<>>
    /\ kinds = <<>>
    /\ events = NoEvents
    /\ subscribers = <<>>
    /\ boundElements = <<>>
    /\ calls = <<>>
    /\ handles = <<>>
    /\ trace = <<>>
    /\ last = Last("new", 0, 0, [threw |-> FALSE, ret |-> <<>>])

\* parser.onModelDirective(callback), onAttributeDirective(callback), ...
On ==
    /\ Len(subscribers) < MaxSubscribers
    /\ \E cat \in 1..5, k \in {"returns", "throws"} :
          Return("on", cat, Len(subscribers) + 1, keep(on(Store, cat, k), unsubscriber(cat, Len(subscribers) + 1)))

\* parser.processElement(element, state)
ProcessElement ==
    /\ Len(contexts) < MaxProcessed
    /\ Return("processElement", 1, 0, processElement(Store, 1, 0))

NextParser == On \/ ProcessElement

SpecParser == InitParser /\ [][NextParser]_vars

----------------------------------------------------------------------------
(* Claims about DirectiveParser.processElement, checked under SpecParser *)

\* the subscribers a trace shows invoked, in order, as <<category, listener>>
Callbacks(tr) == [i \in 1..Len(Of(tr, "callback")) |-> <<Of(tr, "callback")[i].a, Of(tr, "callback")[i].b>>]

\* C5: within one processElement call the subscribers are invoked before it returns,
\* category by category in the order model, attribute, property, class, behavior,
\* and within a category in registration order (every subscriber of a dispatched
\* category exactly once).
C5_DispatchOrder ==
    last.op = "processElement" =>
        LET cb == Callbacks(trace)
        IN  /\ \A i, j \in 1..Len(cb) :
                  i < j => \/ cb[i][1] < cb[j][1]
                           \/ cb[i][1] = cb[j][1] /\ cb[i][2] < cb[j][2]
            /\ \A i \in 1..Len(cb) :
                  \A l \in Range(events[cb[i][1]]) : Occurrences(cb, <<cb[i][1], l>>) = 1

C5_Witness ==
    /\ last.op = "processElement"
    /\ Len(Callbacks(trace)) = 2
    /\ Callbacks(trace)[1][1] < Callbacks(trace)[2][1]
    /\ Callbacks(trace)[1][2] > Callbacks(trace)[2][2]

\* whether category cat holds something in the scan result d
NonEmptyCategory(d, cat) ==
    CASE EVENTS[cat] = "modelDirective" -> d.modelDirective # Null
      [] EVENTS[cat] = "attributeDirective" -> Len(d.attributeDirectives) > 0
      [] EVENTS[cat] = "propertyDirective" -> Len(d.propertyDirectives) > 0
      [] EVENTS[cat] = "behaviorDirective" -> Len(d.behaviorDirectives) > 0
      [] EVENTS[cat] = "classDirective" ->
            /\ d.classDirective # Null
            /\ \/ Len(d.classDirective[1].reactiveClasses) > 0
               \/ d.classDirective[1].computedClass # Null

\* C6: processElement invokes the subscribers of a category only when the scan
\* result holds something in that category (the class directive: a reactive class
\* or a computed class).
C6_OnlyNonEmptyCategories ==
    last.op = "processElement" =>
        \A i \in 1..Len(Callbacks(trace)) :
            NonEmptyCategory(last.ret.directives, Callbacks(trace)[i][1])

\* C7: a subscriber that throws is caught and logged; the subscribers invoked are
\* the ones invoked when nobody throws, and processElement returns its result.
C7_ThrowingSubscriberIsContained ==
    [][last'.op = "processElement" =>
          LET quiet == processElement(
                           [Store EXCEPT !.subscribers = [l \in DOMAIN subscribers |-> "returns"]], 1, 0)
              thrown == {i \in 1..Len(Callbacks(trace')) : subscribers[Callbacks(trace')[i][2]] = "throws"}
          IN  /\ ~last'.threw
              /\ last'.ret = [directives |-> parseDirectives(document[1]).value, context |-> Len(contexts')]
              /\ Callbacks(trace') = Callbacks(quiet.trace)
              /\ Len(Of(trace', "console.error")) = Cardinality(thrown)]_vars

C7_Witness ==
    /\ last.op = "processElement"
    /\ ~last.threw
    /\ \E i, j \in 1..Len(trace) :
          /\ i < j
          /\ trace[i].t = "console.error"
          /\ trace[j].t = "callback" /\ trace[j].a > trace[i].a

----------------------------------------------------------------------------
(* A bridge (a subclass of BridgeBase) over a document of two elements and   *)
(* one abort signal: elements are bound with compatible and incompatible     *)
(* states, with and without the signal, and unbound; the signal is aborted.  *)

MaxBinds == 2

\* a call that returns in s, kept within the bound on the cleanups ever registered
ReturnBounded(op, a, b, s) == Len(s.kinds) <= MaxCleanups /\ Return(op, a, b, s)

\* element 1: <input type="text" data-m="m" data-b-show="s"> or <div data-b-show="s">;
\* element 2: <div data-a-title="t" data-c-active="on">
Documents ==
    {<<[tagName |-> tag.tagName, type |-> tag.type, contentEditable |-> tag.contentEditable,
        attributes |-> Chosen(AttributePool(<<>>), IF tag.tagName = "INPUT" THEN {4, 5} ELSE {4})],
       [tagName |-> "DIV", type |-> <<>>, contentEditable |-> <<"i", "n", "h", "e", "r", "i", "t">>,
        attributes |-> Chosen(AttributePool(<<>>), {2, 7})]>> : tag \in Tags}

\* the values bindElement is given as state
States == {"undefined", "null", "object"}

\* the cleanups each overridden callback registers on the handler context
Plans == {[cat \in 1..5 |-> ks] : ks \in {<<>>, <<"ok">>, <<"throw", "ok">>}}

EmptyStore ==
    [document |-> <<>>, signals |-> <<>>, contexts |-> <<>>, kinds |-> <<>>, events |-> NoEvents,
     subscribers |-> <<>>, boundElements |-> <<>>, calls |-> <<>>,
     handles |-> <<>>, trace |-> <<>>, threw |-> FALSE, plan |-> <<>>, ret |-> <<>>,
     depth |-> 0]

\* new Bridge()
InitBridge ==
    /\ document \in Documents
    /\ signals = <<[aborted |-> FALSE, listeners |-> <<>>]>>
    /\ contexts = <<>>
    /\ kinds = <<>>
    /\ events = BridgeBase(EmptyStore).events
    /\ subscribers = BridgeBase(EmptyStore).subscribers
    /\ boundElements = BridgeBase(EmptyStore).boundElements
    /\ calls = <<>>
    /\ handles = <<>>
    /\ trace = <<>>
    /\ last = Last("new", 0, 0, [threw |-> FALSE, ret |-> <<>>])

\* bridge.bindElement(element, state, {signal})
BindElement ==
    /\ Len(contexts) < MaxBinds
    /\ \E el \in DOMAIN document, state \in States, signal \in 0..1, plan \in Plans :
          ReturnBounded("bindElement", el, signal,
                        keep(bindElement(Log([Store EXCEPT !.plan = plan],
                                             EvX("bindElement", el, signal, 0, state)),
                                         el, state, signal),
                             disposeHandle(el)))

\* bridge.unbindElement(element)
UnbindElement ==
    /\ contexts # <<>>
    /\ \E el \in DOMAIN document :
          Return("unbindElement", el, 0, unbindElement(Store, el))

\* binding.dispose(), binding a value an earlier bindElement() returned
DisposeHandle ==
    /\ handles # <<>>
    /\ \E h \in 1..Len(handles) :
        Return("binding.dispose", handles[h].a, h, callHandle(Store, handles[h]))

\* bridge.dispose()
DisposeBridge ==
    /\ contexts # <<>>
    /\ Return("bridge.dispose", 0, 0, disposeBridge(Store))

NextBridge == BindElement \/ UnbindElement \/ Abort \/ DisposeHandle \/ DisposeBridge

SpecBridge == InitBridge /\ [][NextBridge]_vars

----------------------------------------------------------------------------
(* Claims about BridgeBase, checked under SpecBridge *)

\* the position of the first subscriber invocation in a trace, or one past its end
FirstCallback(tr) ==
    IF \E i \in 1..Len(tr) : tr[i].t = "callback"
    THEN CHOOSE i \in 1..Len(tr) : tr[i].t = "callback" /\ \A j \in 1..(i - 1) : tr[j].t # "callback"
    ELSE Len(tr) + 1

\* C8: boundElements holds at most one context per element, and a bindElement on a
\* bound element has run every queued cleanup of the previous context and removed
\* that context from the table before any directive callback of the new binding.
C8_RebindDisposesPreviousFirst ==
    [][(last'.op = "bindElement" /\ ~last'.threw) =>
          /\ \A i, j \in 1..Len(boundElements') :
                boundElements'[i].key = boundElements'[j].key => i = j
          /\ MapHas(boundElements, last'.a) =>
                LET prev == MapGet(boundElements, last'.a)
                IN  /\ MapGet(boundElements', last'.a) = Len(contexts')
                    /\ Len(contexts') > prev
                    /\ contexts'[prev].unsubscribers = <<>>
                    /\ \E d \in 1..(FirstCallback(trace') - 1) :
                          /\ trace'[d] = Ev("boundElements.delete", last'.a, prev, 0)
                          /\ \A k \in 1..Len(contexts[prev].unsubscribers) :
                                \E i \in 1..(d - 1) :
                                    trace'[i] = Ev("cleanup", prev, contexts[prev].unsubscribers[k], 0)
                    /\ \A i \in FirstCallback(trace')..Len(trace') :
                          trace'[i].t = "cleanup" => trace'[i].a # prev]_vars

C8_Witness ==
    /\ last.op = "bindElement"
    /\ ~last.threw
    /\ \E i, j, k \in 1..Len(trace) :
          /\ i < j /\ j < k
          /\ trace[i].t = "cleanup"
          /\ trace[j].t = "boundElements.delete" /\ trace[j].a = last.a
          /\ trace[k].t = "callback" /\ trace[k].c = MapGet(boundElements, last.a)
          /\ trace[k].c # trace[i].a

\* C9: bindElement with a state that isStateCompatible rejects throws, invokes no
\* directive callback, creates no context and leaves boundElements unchanged; an
\* existing binding of the element keeps its context and its cleanups are not run.
C9_IncompatibleStateBindsNothing ==
    [][(last'.op = "bindElement" /\ ~isStateCompatible(trace'[1].x)) =>
          /\ last'.threw
          /\ Of(trace', "callback") = <<>>
          /\ Of(trace', "cleanup") = <<>>
          /\ contexts' = contexts
          /\ boundElements' = boundElements
          /\ calls' = calls
          /\ kinds' = kinds
          /\ signals' = signals]_vars

C9_Witness ==
    /\ last.op = "bindElement"
    /\ last.threw
    /\ ~isStateCompatible(trace[1].x)
    /\ MapHas(boundElements, last.a)
    /\ contexts[MapGet(boundElements, last.a)].unsubscribers # <<>>

\* C10: a bindElement on an element that has a data-b-* attribute invokes the
\* bridge's behaviorDirectiveCallback with the element, the behavior directives
\* map and the handler context.
C10_BehaviorCallbackInvoked ==
    (/\ last.op = "bindElement"
     /\ ~last.threw
     /\ Len(last.ret.directives.behaviorDirectives) > 0) =>
        \E i \in 1..Len(trace) :
            /\ trace[i].t = "behaviorDirectiveCallback"
            /\ trace[i].b = last.a
            /\ trace[i].c = last.ret.context
            /\ trace[i].x = last.ret.directives.behaviorDirectives

\* the cleanups of context c a trace shows invoked, in order
InvokedOf(tr, c) ==
    LET e == SelectSeq(tr, LAMBDA x : x.t = "cleanup" /\ x.a = c) IN [i \in 1..Len(e) |-> e[i].b]

\* C11: aborting the signal given to bindElement unbinds the element as the
\* dispose() handle bindElement returned does: the cleanups registered on the
\* binding's context run, the context is left as the handle leaves it, and the
\* element is no longer in boundElements.
C11_AbortUnbindsLikeDisposeHandle ==
    [][last'.op = "abort" =>
          \A i \in 1..Len(boundElements) :
              contexts[boundElements[i].value].signal = 1 =>
                  /\ ~MapHas(boundElements', boundElements[i].key)
                  /\ contexts'[boundElements[i].value]
                         = callHandle(Store, disposeHandle(boundElements[i].key)).contexts[boundElements[i].value]
                  /\ InvokedOf(trace', boundElements[i].value)
                         = InvokedOf(callHandle(Store, disposeHandle(boundElements[i].key)).trace,
                                     boundElements[i].value)]_vars

\* what a call leaves alone when it changes nothing
NothingChanged ==
    /\ trace' = <<>>
    /\ UNCHANGED <<document, signals, contexts, kinds, events, subscribers, boundElements, calls>>

\* C12: when bridge.dispose() returns, boundElements is empty and dispose() has run
\* on the context of every element that was bound (its cleanups invoked, its list
\* emptied); unbindElement on an element that is not bound, and bridge.dispose()
\* with nothing bound (a repeated dispose), change nothing and do not throw.
C12_BridgeDisposeUnbindsAll ==
    [][/\ last'.op = "bridge.dispose" =>
              /\ ~last'.threw
              /\ boundElements' = <<>>
              /\ \A i \in 1..Len(boundElements) :
                     /\ Occurrences(trace', Ev("dispose", boundElements[i].value, 0, 0)) = 1
                     /\ InvokedOf(trace', boundElements[i].value)
                            = contexts[boundElements[i].value].unsubscribers
                     /\ contexts'[boundElements[i].value].unsubscribers = <<>>
       /\ (last'.op = "bridge.dispose" /\ boundElements = <<>>) => NothingChanged
       /\ (last'.op = "unbindElement" /\ ~MapHas(boundElements, last'.a)) =>
              (~last'.threw /\ NothingChanged)]_vars

C12_Witness ==
    /\ last.op = "bridge.dispose"
    /\ boundElements = <<>>
    /\ Len(Of(trace, "dispose")) = 2
    /\ Len(Of(trace, "boundElements.delete")) = 2
    /\ Len(Of(trace, "cleanup")) >= 2

----------------------------------------------------------------------------
(* A DirectiveParser whose subscribers come and go: callbacks are registered, *)
(* the same function possibly more than once, the unsubscribers that on()    *)
(* returned are called, and an element with all five categories is processed. *)

MaxRegistrations == 3

\* the categories subscribed to: model and attribute
RegistryCategories == {Category("modelDirective"), Category("attributeDirective")}

\* <input type="text" data-a-title="t" data-p-value="v" data-b-show="s" data-m="m" data-c-active="on">
InitRegistry ==
    /\ document = <<[tagName |-> "INPUT", type |-> <<"t", "e", "x", "t">>,
                     contentEditable |-> <<"i", "n", "h", "e", "r", "i", "t">>,
                     attributes |-> Chosen(AttributePool(<<>>), {2, 3, 4, 5, 7})]>>
    /\ signals = <<>>
    /\ contexts = <<>>
    /\ kinds = <<>>
    /\ events = NoEvents
    /\ subscribers = <<>>
    /\ boundElements = <<>>
    /\ calls = <<>>
    /\ handles = <<>>
    /\ trace = <<>>
    /\ last = Last("new", 0, 0, [threw |-> FALSE, ret |-> <<>>])

\* parser.on*Directive(callback) with a new function
Subscribe ==
    /\ Len(handles) < MaxRegistrations
    /\ \E cat \in RegistryCategories :
          Return("on", cat, Len(subscribers) + 1,
                 keep(on(Store, cat, "returns"), unsubscriber(cat, Len(subscribers) + 1)))

\* parser.on*Directive(callback) with a function registered before
SubscribeAgain ==
    /\ Len(handles) < MaxRegistrations
    /\ \E cat \in RegistryCategories, l \in 1..Len(subscribers) :
          Return("on", cat, l, keep(onAgain(Store, cat, l), unsubscriber(cat, l)))

\* unsubscribe(), a function an earlier on*Directive returned
Unsubscribe ==
    /\ handles # <<>>
    /\ \E h \in 1..Len(handles) :
        Return("unsubscribe", handles[h].a, handles[h].b, callHandle(Store, handles[h]))

NextRegistry == Subscribe \/ SubscribeAgain \/ Unsubscribe \/ ProcessElement

SpecRegistry == InitRegistry /\ [][NextRegistry]_vars

\* the subscribers a processElement of element 1 invokes, in order, when the
\* registry is ev
Dispatched(ev) == Callbacks(processElement([Store EXCEPT !.events = ev], 1, 0).trace)

\* f without its first element equal to x
RemoveFirst(f, x) ==
    IF \E i \in 1..Len(f) : f[i] = x
    THEN LET i == CHOOSE i \in 1..Len(f) : f[i] = x /\ \A j \in 1..(i - 1) : f[j] # x
         IN  [j \in 1..(Len(f) - 1) |-> IF j < i THEN f[j] ELSE f[j + 1]]
    ELSE f

\* C13 as stated: after the unsubscribe function of a registration is called, a
\* processElement does not invoke the removed callback for that category and
\* invokes every other callback as before.
C13_UnsubscribedCallbackNotInvoked ==
    [][last'.op = "unsubscribe" =>
          Dispatched(events') =
              SelectSeq(Dispatched(events), LAMBDA p : p # <<last'.a, last'.b>>)]_vars

\* C13 amended: the unsubscribe function removes one registration of its callback
\* from its category, the earliest still registered, and nothing else: a callback
\* registered once for the category is not invoked by a later processElement, and
\* every other registration is invoked as before, in the same order.
C13_UnsubscribeRemovesFirstRegistration ==
    [][last'.op = "unsubscribe" =>
          /\ Dispatched(events') = RemoveFirst(Dispatched(events), <<last'.a, last'.b>>)
          /\ Occurrences(events[last'.a], last'.b) <= 1 =>
                 Occurrences(Dispatched(events'), <<last'.a, last'.b>>) = 0]_vars

C13_Witness ==
    /\ last.op = "unsubscribe"
    /\ Len(trace) = 1 /\ trace[1].t = "events.splice"
    /\ Occurrences(events[last.a], last.b) = 0
    /\ Len(events[last.a]) = 2
    /\ Len(Dispatched(events)) = 2

----------------------------------------------------------------------------
(* Claims about HandlerContext.isActive, checked under SpecCtx *)

\* C14: isActive is true iff the context was given no token or its token has not
\* fired: a context built with a fired token is inactive from construction, an
\* abort() of the token turns isActive from true to false in that step, no other
\* call changes it, and a context without a token is always active.
C14_IsActiveReflectsToken ==
    /\ [](/\ isActive(Store, 1) <=> (contexts[1].signal = 0 \/ ~signals[contexts[1].signal].aborted)
          /\ contexts[1].signal = 0 => isActive(Store, 1)
          /\ (last.op = "new" /\ last.a = 1 /\ signals[1].aborted) => ~isActive(Store, 1))
    /\ [][/\ (last'.op = "abort" /\ contexts[1].signal = 1) =>
                 (isActive(Store, 1) /\ ~isActive(Store', 1))
          /\ last'.op # "abort" => (isActive(Store', 1) <=> isActive(Store, 1))]_vars

C14_Witness ==
    /\ last.op = "abort"
    /\ contexts[1].signal = 1
    /\ signals[1].aborted
    /\ ~isActive(Store, 1)

----------------------------------------------------------------------------
(* isValidForTwoWayBinding on its own: one element, drawn from every          *)
(* combination of tag, type, contentEditable and role below.                  *)

\* an element with the role attribute role (Null: no such attribute) before its
\* other attributes
Element(tagName, type, contentEditable, role, attributes) ==
    [tagName |-> tagName, type |-> type, contentEditable |-> contentEditable,
     attributes |-> (IF role = Null THEN <<>> ELSE <<[key |-> <<"r", "o", "l", "e">>, value |-> role[1]]>>)
                    \o attributes]

TagNames == {"TEXTAREA", "SELECT", "INPUT", "DIV"}

\* element.type: the 16 supported values, two others, and none
TypeValues == supportedTypes \cup {<<"b", "u", "t", "t", "o", "n">>, <<"h", "i", "d", "d", "e", "n">>, <<>>}

\* element.contentEditable
ContentEditableValues == {<<"t", "r", "u", "e">>, <<"f", "a", "l", "s", "e">>, <<"i", "n", "h", "e", "r", "i", "t">>}

\* the role attribute: absent, textbox, button
RoleValues == {Null, Some(<<"t", "e", "x", "t", "b", "o", "x">>), Some(<<"b", "u", "t", "t", "o", "n">>)}

\* the program before any call, with the page given
InitWith(page) ==
    /\ document = page
    /\ signals = <<>>
    /\ contexts = <<>>
    /\ kinds = <<>>
    /\ events = NoEvents
    /\ subscribers = <<>>
    /\ boundElements = <<>>
    /\ calls = <<>>
    /\ handles = <<>>
    /\ trace = <<>>
    /\ last = Last("new", 0, 0, [threw |-> FALSE, ret |-> <<>>])

InitValid ==
    \E tagName \in TagNames, type \in TypeValues, contentEditable \in ContentEditableValues,
       role \in RoleValues :
        InitWith(<<Element(tagName, type, contentEditable, role, <<>>)>>)

\* the value a pure function returns
returns(s, value) == [s EXCEPT !.ret = value]

\* isValidForTwoWayBinding(element)
IsValidForTwoWayBinding ==
    /\ document # <<>>
    /\ Return("isValidForTwoWayBinding", 1, 0, returns(Store, isValidForTwoWayBinding(document[1])))

NextValid == IsValidForTwoWayBinding

SpecValid == InitValid /\ [][NextValid]_vars

\* eligibility for two-way binding as the claim states it
Eligible(element) ==
    \/ element.tagName \in {"TEXTAREA", "SELECT"}
    \/ element.tagName = "INPUT" /\ element.type \in supportedTypes
    \/ element.contentEditable = <<"t", "r", "u", "e">>
    \/ \E i \in 1..Len(element.attributes) :
          /\ element.attributes[i].key = <<"r", "o", "l", "e">>
          /\ element.attributes[i].value = <<"t", "e", "x", "t", "b", "o", "x">>

\* C16: isValidForTwoWayBinding(element) is true iff the tag is TEXTAREA or SELECT,
\* or the tag is INPUT with a type of the allow-list, or contentEditable is "true",
\* or the element has the attribute role="textbox", whatever the tag and type.
C16_ValidIffEligible ==
    last.op = "isValidForTwoWayBinding" => (last.ret <=> Eligible(document[1]))

----------------------------------------------------------------------------
(* parseDirectives on its own: one element is scanned.  Here the element is  *)
(* drawn from tags, types, contentEditable values and roles that accept and  *)
(* refuse two-way binding, with every subset of the attributes below.        *)

\* return directives, after the console.warn calls made on the way
returnParsed(s, parsed) == returns(logWarnings(s, parsed.warnings, 1), parsed.value)

\* parseDirectives(element)
ParseDirectives ==
    /\ document # <<>>
    /\ Return("parseDirectives", 1, 0, returnParsed(Store, parseDirectives(document[1])))

NextScan == ParseDirectives

\* data-m with all its parts, a name that only starts like data-m, and one
\* attribute of each other category
ModelAttributePool ==
    <<[key |-> <<"d", "a", "t", "a", "-", "m">>, value |-> <<"m", ":", "p", "#", "x", "@", "e">>],
      [key |-> <<"d", "a", "t", "a", "-", "m", "o", "d", "e", "l">>, value |-> <<"z">>],
      [key |-> <<"d", "a", "t", "a", "-", "a", "-", "t", "i", "t", "l", "e">>, value |-> <<"t">>],
      [key |-> <<"d", "a", "t", "a", "-", "p", "-", "v", "a", "l", "u", "e">>, value |-> <<"v">>],
      [key |-> <<"d", "a", "t", "a", "-", "b", "-", "s", "h", "o", "w">>, value |-> <<"s">>],
      [key |-> <<"d", "a", "t", "a", "-", "c", "-", "a", "c", "t", "i", "v", "e">>, value |-> <<"o", "n">>]>>

\* <textarea>, <select>, <input type="text">, <input type="button">, <div>
ModelTags ==
    {[tagName |-> "TEXTAREA", type |-> <<"t", "e", "x", "t", "a", "r", "e", "a">>],
     [tagName |-> "SELECT", type |-> <<"s", "e", "l", "e", "c", "t", "-", "o", "n", "e">>],
     [tagName |-> "INPUT", type |-> <<"t", "e", "x", "t">>],
     [tagName |-> "INPUT", type |-> <<"b", "u", "t", "t", "o", "n">>],
     [tagName |-> "DIV", type |-> <<>>]}

InitModelScan ==
    \E tag \in ModelTags, contentEditable \in {<<"t", "r", "u", "e">>, <<"i", "n", "h", "e", "r", "i", "t">>},
       role \in {Null, Some(<<"t", "e", "x", "t", "b", "o", "x">>)}, S \in SUBSET (1..6) :
        InitWith(<<Element(tag.tagName, tag.type, contentEditable, role, Chosen(ModelAttributePool, S))>>)

SpecModelScan == InitModelScan /\ [][NextScan]_vars

\* element without its attribute name
WithoutAttribute(element, name) == [element EXCEPT !.attributes = MapDelete(@, name)]

\* a trace shows console.warn called with the data-m warning naming tagName
WarnsAboutModel(tr, tagName) ==
    \E i \in 1..Len(tr) :
        /\ tr[i].t = "console.warn"
        /\ tr[i].x.text = "data-m is not valid on"
        /\ tr[i].x.about[1] = tagName

\* C15: parseDirectives stores a model directive iff the element has an attribute
\* named exactly data-m and is eligible for two-way binding; on an ineligible
\* element with data-m the model directive is absent, a warning naming the tag is
\* logged, and every other category is as parsed from the element without data-m.
C15_ModelDirectiveIffEligible ==
    last.op = "parseDirectives" =>
        /\ last.ret.modelDirective # Null
               <=> (MapHas(document[1].attributes, DIRECTIVE_PREFIXES.MODEL) /\ Eligible(document[1]))
        /\ (MapHas(document[1].attributes, DIRECTIVE_PREFIXES.MODEL) /\ ~Eligible(document[1])) =>
               /\ WarnsAboutModel(trace, document[1].tagName)
               /\ [last.ret EXCEPT !.modelDirective = Null]
                      = parseDirectives(WithoutAttribute(document[1], DIRECTIVE_PREFIXES.MODEL)).value

----------------------------------------------------------------------------
(* parseDirectives on a <div> with class directives: data-c absent, empty,    *)
(* blank or with a value, before or after the data-c-* attributes, of which   *)
(* every subset is tried.                                                     *)

\* the values of data-c: "", " ", "cls", " c#m ", "!"
DataCValues == {<<>>, <<" ">>, <<"c", "l", "s">>, <<" ", "c", "#", "m", " ">>, <<"!">>}

\* data-c-active, data-c-big with a malformed value, data-c- and data-a-title
ClassAttributePool ==
    <<[key |-> <<"d", "a", "t", "a", "-", "c", "-", "a", "c", "t", "i", "v", "e">>, value |-> <<"i", "s", "A", "c", "t", "i", "v", "e">>],
      [key |-> <<"d", "a", "t", "a", "-", "c", "-", "b", "i", "g">>, value |-> <<"b", "!">>],
      [key |-> <<"d", "a", "t", "a", "-", "c", "-">>, value |-> <<"e">>],
      [key |-> <<"d", "a", "t", "a", "-", "a", "-", "t", "i", "t", "l", "e">>, value |-> <<"t">>]>>

\* the attribute data-c with each of its values, or no such attribute
DataCAttributes == {<<>>} \cup {<<[key |-> DIRECTIVE_PREFIXES.CLASS, value |-> v]>> : v \in DataCValues}

InitClassScan ==
    \E dataC \in DataCAttributes, S \in SUBSET (1..4), first \in BOOLEAN :
        InitWith(<<Element("DIV", <<>>, <<"i", "n", "h", "e", "r", "i", "t">>, Null,
                           IF first THEN dataC \o Chosen(ClassAttributePool, S)
                           ELSE Chosen(ClassAttributePool, S) \o dataC)>>)

SpecClassScan == InitClassScan /\ [][NextScan]_vars

\* the data-c-* attributes of a list of attributes, in order
DataCStar(attributes) == SelectSeq(attributes, LAMBDA e : startsWith(e.key, CLASS_DASH))

\* the attributes hold data-c with a value that is not blank
HasComputedClass(attributes) ==
    \E i \in 1..Len(attributes) :
        /\ attributes[i].key = DIRECTIVE_PREFIXES.CLASS
        /\ \E j \in 1..Len(attributes[i].value) : attributes[i].value[j] # " "

\* a trace shows console.warn called with the conflict warning
WarnsAboutConflict(tr) ==
    \E i \in 1..Len(tr) : tr[i].t = "console.warn" /\ tr[i].x.text = CLASS_CONFLICT

\* C17: the ClassDirectiveValue the scanner builds never has both a computedClass
\* and reactive classes.  With a non-blank data-c, computedClass is parsed from its
\* value, reactiveClasses is empty and the conflict warning is logged iff a data-c-*
\* attribute exists; with data-c missing, empty or blank, computedClass is absent
\* and reactiveClasses has one entry per data-c-<name> attribute, keyed <name>, in
\* attribute order.
C17_ClassFormsExclusive ==
    (last.op = "parseDirectives" /\ last.ret.classDirective # Null) =>
        /\ ~(/\ last.ret.classDirective[1].computedClass # Null
              /\ Len(last.ret.classDirective[1].reactiveClasses) > 0)
        /\ HasComputedClass(document[1].attributes) =>
               /\ last.ret.classDirective[1].computedClass
                      = Some(parseDirectiveValue(MapGet(document[1].attributes, DIRECTIVE_PREFIXES.CLASS)).value)
               /\ last.ret.classDirective[1].reactiveClasses = <<>>
               /\ WarnsAboutConflict(trace) <=> DataCStar(document[1].attributes) # <<>>
        /\ ~HasComputedClass(document[1].attributes) =>
               /\ last.ret.classDirective[1].computedClass = Null
               /\ ~WarnsAboutConflict(trace)
               /\ last.ret.classDirective[1].reactiveClasses
                      = [i \in 1..Len(DataCStar(document[1].attributes)) |->
                            [key   |-> SubSeq(DataCStar(document[1].attributes)[i].key, 8,
                                              Len(DataCStar(document[1].attributes)[i].key)),
                             value |-> parseDirectiveValue(DataCStar(document[1].attributes)[i].value).value]]

C17_Witness ==
    /\ last.op = "parseDirectives"
    /\ MapHas(document[1].attributes, DIRECTIVE_PREFIXES.CLASS)
    /\ MapGet(document[1].attributes, DIRECTIVE_PREFIXES.CLASS) = <<"c", "l", "s">>
    /\ Len(DataCStar(document[1].attributes)) = 3
    /\ last.ret.classDirective # Null
    /\ last.ret.classDirective[1].computedClass # Null
    /\ last.ret.classDirective[1].computedClass[1].target = <<"c", "l", "s">>
    /\ last.ret.classDirective[1].reactiveClasses = <<>>
    /\ WarnsAboutConflict(trace)

----------------------------------------------------------------------------
(* parseModelDirective on its own: the value of data-m is every string over   *)
(* the separators of the grammar, a letter and a space, up to a length.       *)

MaxValueLen == 4

\* the strings over alphabet of length at most n
Strings(alphabet, n) == UNION {[1..k -> alphabet] : k \in 0..n}

ModelAlphabet == {"a", ":", "#", "@", " "}

\* <input type="text" data-m=value>
InitModelValue ==
    \E value \in Strings(ModelAlphabet, MaxValueLen) :
        InitWith(<<Element("INPUT", <<"t", "e", "x", "t">>, <<"i", "n", "h", "e", "r", "i", "t">>, Null,
                           <<[key |-> DIRECTIVE_PREFIXES.MODEL, value |-> value]>>)>>)

\* the value of the first attribute of element 1
Input == document[1].attributes[1].value

\* parseModelDirective(value)
ParseModelDirective ==
    /\ document # <<>>
    /\ Return("parseModelDirective", 1, 0, returns(Store, parseModelDirective(Input).value))

NextModelValue == ParseModelDirective

SpecModelValue == InitModelValue /\ [][NextModelValue]_vars

HasChar(str, ch) == \E i \in 1..Len(str) : str[i] = ch

\* str is head, then ch and tail if there is a separator (tail empty if not)
SplitsAt(str, head, ch, tail, separated) ==
    IF separated THEN str = head \o <<ch>> \o tail ELSE (str = head /\ tail = <<>>)

\* C18: parseModelDirective splits its input without trimming: the event is the
\* text after the last '@'; in what precedes, the modifier chain is the text after
\* the first '#'; in what precedes that, the target is the text before the first
\* ':' and the domProperty the text after it; a part whose separator is missing is
\* empty, and the target keeps its spaces.
C18_ModelDirectiveSplit ==
    last.op = "parseModelDirective" =>
        \E i, j \in 0..Len(Input) :
            /\ i <= j
            \* Input = beforeHash [# chain] [@ event]
            /\ ~HasChar(last.ret.event, "@")
            /\ SplitsAt(Input, SubSeq(Input, 1, j), "@", last.ret.event, HasChar(Input, "@"))
            /\ ~HasChar(SubSeq(Input, 1, i), "#")
            /\ \E chain \in {SubSeq(Input, i + 2, j)} :
                   /\ SplitsAt(SubSeq(Input, 1, j), SubSeq(Input, 1, i), "#", chain,
                               HasChar(SubSeq(Input, 1, j), "#"))
                   /\ last.ret.eventModifiers = setModifiers(<<>>, parseModifiersString(chain))
            \* beforeHash = target [: domProperty]
            /\ ~HasChar(last.ret.target, ":")
            /\ SplitsAt(SubSeq(Input, 1, i), last.ret.target, ":", last.ret.domProperty,
                        HasChar(SubSeq(Input, 1, i), ":"))

C18_Witness ==
    /\ last.op = "parseModelDirective"
    /\ HasChar(last.ret.target, "@")
    /\ HasChar(last.ret.target, " ")
    /\ last.ret.event = <<"a">>

----------------------------------------------------------------------------
(* parseModifiersString on its own and folded by parseDirectiveValue: the     *)
(* chain is up to MaxTokens tokens joined by '#'.                             *)

MaxTokens == 3

\* a, b, a(1,2), b(x), b(), a(1, (1), ! and the empty token
ModifierTokens ==
    {<<>>, <<"a">>, <<"b">>, <<"a", "(", "1", ",", "2", ")">>, <<"b", "(", "x", ")">>,
     <<"b", "(", ")">>, <<"a", "(", "1">>, <<"(", "1", ")">>, <<"!">>}

\* <div data-a-x="t#" + chain>
InitModifiers ==
    \E n \in 0..MaxTokens : \E tokens \in [1..n -> ModifierTokens] :
        InitWith(<<Element("DIV", Null, <<"i", "n", "h", "e", "r", "i", "t">>, Null,
                           <<[key |-> DIRECTIVE_PREFIXES.ATTRIBUTE \o <<"x">>,
                              value |-> <<"t", "#">> \o join(tokens, <<"#">>)]>>)>>)

\* the text after "t#" in the attribute
Chain == substring(Input, 2)

\* parseModifiersString(str)
ParseModifiersString ==
    /\ document # <<>>
    /\ Return("parseModifiersString", 1, 0, returns(Store, parseModifiersString(Chain)))

NextModifiers == ParseModifiersString \/ ParseDirectives

SpecModifiers == InitModifiers /\ [][NextModifiers]_vars

\* where the pieces of str separated by ch start: after position 0 and after each ch
Cuts(str, ch) == {0} \cup {i \in 1..Len(str) : str[i] = ch}

\* the piece of str that starts after position s and ends before the next ch
Segment(str, ch, s) ==
    LET ends == {i \in (s + 1)..Len(str) : str[i] = ch} \cup {Len(str) + 1}
    IN  SubSeq(str, s + 1, (CHOOSE e \in ends : \A f \in ends : e <= f) - 1)

Rank(set, s) == Cardinality({x \in set : x <= s})

\* name is the longest prefix of token made of name characters
IsNameOf(name, token) ==
    /\ Len(name) <= Len(token)
    /\ SubSeq(token, 1, Len(name)) = name
    /\ \A i \in 1..Len(name) : name[i] \in ModifierNameChars
    /\ Len(token) > Len(name) => token[Len(name) + 1] \notin ModifierNameChars

\* args are the arguments written in token after name: the comma-separated
\* pieces, in order, of a non-empty parenthesised group with no ')' inside
AreArgsOf(args, name, token) ==
    LET after == SubSeq(token, Len(name) + 1, Len(token))
        group == Segment(after, ")", 1)
    IN  IF after # <<>> /\ after[1] = "(" /\ HasChar(after, ")") /\ group # <<>>
        THEN /\ Len(args) = Cardinality(Cuts(group, ","))
             /\ \A c \in Cuts(group, ",") :
                    args[Rank(Cuts(group, ","), c)] = coerceArg(Segment(group, ",", c))
        ELSE args = <<>>

\* the places in the chain where a token that starts with a name character starts
NamedTokens ==
    {s \in Cuts(Chain, "#") :
        /\ Segment(Chain, "#", s) # <<>>
        /\ Segment(Chain, "#", s)[1] \in ModifierNameChars}

\* C19: parseModifiersString returns one modifier for each '#'-separated token
\* that starts with a name in [A-Za-z0-9_-]+, in the order of the tokens, with
\* its arguments in written order, and nothing for the other tokens; folded into
\* eventModifiers, each name has the arguments of its last occurrence.
C19_ModifiersInOrder ==
    /\ last.op = "parseModifiersString" =>
           /\ Len(last.ret) = Cardinality(NamedTokens)
           /\ \A s \in NamedTokens :
                  /\ IsNameOf(last.ret[Rank(NamedTokens, s)].name, Segment(Chain, "#", s))
                  /\ AreArgsOf(last.ret[Rank(NamedTokens, s)].args,
                               last.ret[Rank(NamedTokens, s)].name, Segment(Chain, "#", s))
    /\ last.op = "parseDirectives" =>
           LET modifiers == parseModifiersString(Chain)
               map == MapGet(last.ret.attributeDirectives, <<"x">>).eventModifiers
           IN  /\ \A i \in 1..Len(map) : \E j \in 1..Len(modifiers) : modifiers[j].name = map[i].key
               /\ \A j \in 1..Len(modifiers) :
                      (\A k \in (j + 1)..Len(modifiers) : modifiers[k].name # modifiers[j].name)
                          => /\ MapHas(map, modifiers[j].name)
                             /\ MapGet(map, modifiers[j].name) = modifiers[j].args

\* "b(x)#!#a(1,2)" gave b with ["x"], then a with [1, 2]
C19_Witness ==
    /\ last.op = "parseModifiersString"
    /\ Cardinality(Cuts(Chain, "#")) = 3
    /\ Len(last.ret) = 2
    /\ last.ret[1] = [name |-> <<"b">>, args |-> <<[type |-> "string", text |-> <<"x">>]>>]
    /\ last.ret[2] = [name |-> <<"a">>, args |-> <<[type |-> "number", text |-> <<"1">>],
                                                   [type |-> "number", text |-> <<"2">>]>>]

----------------------------------------------------------------------------
(* parseDirectiveValue on its own and inside parseDirectives: the value of    *)
(* data-a-x is every string over a target letter, '.', '#', a space and a     *)
(* character outside the target pattern, up to MaxValueLen; the element also  *)
(* has a property and a behavior directive.                                   *)

ValueAlphabet == {"a", ".", "#", " ", "!"}

\* <div data-a-x=value data-p-value="v#m" data-b-show="s">
InitDirectiveValue ==
    \E value \in Strings(ValueAlphabet, MaxValueLen) :
        InitWith(<<Element("DIV", Null, <<"i", "n", "h", "e", "r", "i", "t">>, Null,
                           <<[key |-> DIRECTIVE_PREFIXES.ATTRIBUTE \o <<"x">>, value |-> value],
                             [key |-> DIRECTIVE_PREFIXES.PROPERTY \o <<"v", "a", "l", "u", "e">>,
                              value |-> <<"v", "#", "m">>],
                             [key |-> DIRECTIVE_PREFIXES.BEHAVIOR \o <<"s", "h", "o", "w">>,
                              value |-> <<"s">>]>>)>>)

\* parseDirectiveValue(value)
ParseDirectiveValue ==
    /\ document # <<>>
    /\ Return("parseDirectiveValue", 1, 0, returnParsed(Store, parseDirectiveValue(Input)))

NextDirectiveValue == ParseDirectiveValue \/ ParseDirectives

SpecDirectiveValue == InitDirectiveValue /\ [][NextDirectiveValue]_vars

\* a trace shows console.warn called with the message words
Warns(tr, words) == \E i \in 1..Len(tr) : tr[i].t = "console.warn" /\ tr[i].x.text = words

\* inner is str without its leading and trailing spaces
IsTrimOf(inner, str) ==
    /\ inner # <<>> => (inner[1] # " " /\ inner[Len(inner)] # " ")
    /\ \E i, j \in 0..Len(str) :
           /\ i + Len(inner) + j = Len(str)
           /\ \A k \in 1..i : str[k] = " "
           /\ SubSeq(str, i + 1, i + Len(inner)) = inner
           /\ \A k \in (Len(str) - j + 1)..Len(str) : str[k] = " "

\* d is the DirectiveValue the claim describes for the trimmed text inner, and
\* tr has the warnings it describes and no others
IsDirectiveValueOf(d, tr, inner) ==
    LET rest == SubSeq(inner, Len(d.target) + 1, Len(inner))
    IN  /\ Len(d.target) <= Len(inner)
        /\ SubSeq(inner, 1, Len(d.target)) = d.target
        /\ \A i \in 1..Len(d.target) : d.target[i] \in TargetChars
        /\ rest # <<>> => rest[1] \notin TargetChars
        /\ d.eventModifiers = IF rest # <<>> /\ rest[1] = "#"
                               THEN setModifiers(<<>>, parseModifiersString(Tail(rest)))
                               ELSE <<>>
        /\ d.domProperty = <<>> /\ d.event = <<>>
        /\ Warns(tr, "Unexpected characters in directive value after target")
               <=> (d.target # <<>> /\ rest # <<>> /\ rest[1] # "#")
        /\ Warns(tr, "Could not parse target from directive value") <=> d.target = <<>>
        /\ \A i \in 1..Len(tr) : tr[i].t = "console.warn"

WithValue(element, name, value) == [element EXCEPT !.attributes = MapSet(@, name, value)]

\* C20: parseDirectiveValue does not throw; its target is the leading run of
\* [A-Za-z0-9_.$-] of the trimmed input and its modifiers those of a '#'-chain
\* that follows; trailing content after a target, or an empty target, only logs a
\* warning; and in parseDirectives the directives of the element's other
\* attributes are those parsed when the value is well-formed.
C20_DirectiveValueNeverThrows ==
    /\ last.op = "parseDirectiveValue" =>
           /\ ~last.threw
           /\ \E i, j \in 0..Len(Input) :
                  /\ IsTrimOf(SubSeq(Input, i + 1, Len(Input) - j), Input)
                  /\ IsDirectiveValueOf(last.ret, trace, SubSeq(Input, i + 1, Len(Input) - j))
    /\ last.op = "parseDirectives" =>
           /\ ~last.threw
           /\ MapHas(last.ret.attributeDirectives, <<"x">>)
           /\ MapGet(last.ret.propertyDirectives, <<"v", "a", "l", "u", "e">>).target = <<"v">>
           /\ MapGet(last.ret.behaviorDirectives, <<"s", "h", "o", "w">>).target = <<"s">>
           /\ [last.ret EXCEPT !.attributeDirectives = <<>>]
                  = [parseDirectives(WithValue(document[1], DIRECTIVE_PREFIXES.ATTRIBUTE \o <<"x">>, <<"a">>)).value
                        EXCEPT !.attributeDirectives = <<>>]

\* " a.!" gave the target "a." and the warning about what follows it
C20_Witness ==
    /\ last.op = "parseDirectiveValue"
    /\ Input # <<>> /\ Input[1] = " "
    /\ last.ret.target = <<"a", ".">>
    /\ Warns(trace, "Unexpected characters in directive value after target")

----------------------------------------------------------------------------
(* The name codec on its own: attributeNameToPropertyName and                 *)
(* propertyNameToAttributeName with the default prefix, applied to every name *)
(* up to a length, and the first to the results of the second.                *)

MaxNameLen == 6

DATA_PREFIX == <<"d", "a", "t", "a", "-">>

\* property names: letters of both cases, a digit and the segment separator
PropertyNames == Strings({"a", "B", "1", "."}, MaxNameLen)

\* attribute names, with the prefix and without it
AttributeNames ==
    LET names == Strings({"a", "-", "."}, MaxNameLen)
    IN  names \cup {DATA_PREFIX \o name : name \in names}

\* the name given to the codec, carried as the name of an attribute of <div>
InitCodec ==
    \E name \in PropertyNames \cup AttributeNames :
        InitWith(<<Element("DIV", Null, <<"i", "n", "h", "e", "r", "i", "t">>, Null,
                           <<[key |-> name, value |-> <<>>]>>)>>)

Name == document[1].attributes[1].key

\* propertyNameToAttributeName(input)
PropertyNameToAttributeName ==
    /\ document # <<>>
    /\ Return("propertyNameToAttributeName", Name, 0,
              returns(Store, propertyNameToAttributeName(Name, DATA_PREFIX)))

\* attributeNameToPropertyName(attrName), attrName the name or the result of
\* the propertyNameToAttributeName call before
AttributeNameToPropertyName ==
    \E attrName \in {Name} \cup (IF last.op = "propertyNameToAttributeName" THEN {last.ret} ELSE {}) :
        Return("attributeNameToPropertyName", attrName, 0,
               returns(Store, attributeNameToPropertyName(attrName, DATA_PREFIX)))

NextCodec == PropertyNameToAttributeName \/ AttributeNameToPropertyName

SpecCodec == InitCodec /\ [][NextCodec]_vars

\* n is dot-separated non-empty segments of letters and digits, none of which
\* starts with a digit
IsCamelCase(n) ==
    /\ n # <<>>
    /\ \A i \in 1..Len(n) : IsLetter(n[i]) \/ IsDigit(n[i]) \/ n[i] = "."
    /\ n[1] # "." /\ n[Len(n)] # "."
    /\ \A i \in 1..Len(n) : (i = 1 \/ n[i - 1] = ".") => (n[i] # "." /\ ~IsDigit(n[i]))

Hyphens(str) == Len(leadingRun(str, {"-"}))

\* str is letters and runs of one to four hyphens, each run followed by a letter
IsHyphenated(str) ==
    /\ \A i \in 1..Len(str) : IsLetter(str[i]) \/ str[i] = "-"
    /\ str # <<>> => str[Len(str)] # "-"
    /\ \A i \in 1..Len(str) : Hyphens(SubSeq(str, i, Len(str))) <= 4

\* the decoding of a hyphenated segment, run by run: '-x' is X, '--x' is -x,
\* '---x' is -X and '----x' is --x
RECURSIVE DecodeRuns(_)
DecodeRuns(str) ==
    IF str = <<>> THEN <<>>
    ELSE LET k == Hyphens(str)
             x == <<str[k + 1]>>
         IN  (CASE k = 0 -> x
                [] k = 1 -> toUpperCase(x)
                [] k = 2 -> <<"-">> \o x
                [] k = 3 -> <<"-">> \o toUpperCase(x)
                [] k = 4 -> <<"-", "-">> \o x)
             \o DecodeRuns(SubSeq(str, k + 2, Len(str)))

----------------------------------------------------------------------------
(* propertyNameToPath and pathToPropertyName on their own: each is applied to *)
(* an input and to the result of the other.                                   *)

MaxSegments == 2

\* dotted path strings
PathNames == Strings({"a", "."}, MaxNameLen)

\* segments, with literal dots anywhere or none
Segments == Strings({"a", "."}, MaxSegments)

NAME == <<"n", "a", "m", "e">>
PART == <<"p", "a", "r", "t">>

\* the input is carried by the attributes of <div>: a path string as the value
\* of one attribute "name", a path as the values of attributes "part"
InitPath ==
    \/ \E p \in PathNames :
           InitWith(<<Element("DIV", Null, <<"i", "n", "h", "e", "r", "i", "t">>, Null,
                              <<[key |-> NAME, value |-> p]>>)>>)
    \/ \E n \in 0..MaxSegments : \E s \in [1..n -> Segments] :
           InitWith(<<Element("DIV", Null, <<"i", "n", "h", "e", "r", "i", "t">>, Null,
                              [i \in 1..n |-> [key |-> PART, value |-> s[i]]])>>)

\* the path strings and the paths given as input
InputNames == {document[1].attributes[i].value : i \in {j \in 1..Len(document[1].attributes) : document[1].attributes[j].key = NAME}}
InputPaths ==
    IF \E i \in 1..Len(document[1].attributes) : document[1].attributes[i].key = NAME
    THEN {}
    ELSE {[i \in 1..Len(document[1].attributes) |-> document[1].attributes[i].value]}

\* propertyNameToPath(propertyName), propertyName an input or the result of
\* the pathToPropertyName call before
PropertyNameToPath ==
    \E propertyName \in InputNames \cup (IF last.op = "pathToPropertyName" THEN {last.ret} ELSE {}) :
        Return("propertyNameToPath", propertyName, 0,
               returns(Store, propertyNameToPath(propertyName)))

\* pathToPropertyName(path), path an input or the result of the
\* propertyNameToPath call before
PathToPropertyName ==
    \E path \in InputPaths \cup (IF last.op = "propertyNameToPath" THEN {last.ret} ELSE {}) :
        Return("pathToPropertyName", path, 0, returns(Store, pathToPropertyName(path)))

NextPath == PropertyNameToPath \/ PathToPropertyName

SpecPath == InitPath /\ [][NextPath]_vars

\* C22: propertyNameToPath and pathToPropertyName are inverses in both
\* directions: applying one to the result of the other gives the first input back,
\* for every dotted path string and for every sequence of segments.
C22_PathRoundTrips ==
    [][/\ (/\ last.op = "propertyNameToPath"
           /\ last'.op = "pathToPropertyName"
           /\ last'.a = last.ret) => last'.ret = last.a
       /\ (/\ last.op = "pathToPropertyName"
           /\ last'.op = "propertyNameToPath"
           /\ last'.a = last.ret) => last'.ret = last.a]_vars

----------------------------------------------------------------------------
(* Claims about older dispose handles, checked under SpecBridge *)

\* C24: the dispose() handle of a bindElement call, invoked when the same element
\* has since been bound again and is still bound, leaves the newer binding alone:
\* no cleanup runs, no context changes and boundElements is as before.
C24_OldHandleLeavesNewBinding ==
    [][(/\ last'.op = "binding.dispose"
        /\ MapHas(boundElements, last'.a)
        /\ \E h \in (last'.b + 1)..Len(handles) : handles[h].a = last'.a)
           => (/\ boundElements' = boundElements
               /\ contexts' = contexts
               /\ Invoked(trace') = <<>>)]_vars

----------------------------------------------------------------------------
(* Claims about the abort listeners of a context, checked under SpecCtx *)

\* C28: the context has at most one abort listener registered on its token at
\* any time, and none once dispose() has returned.
C28_OneAbortListener ==
    /\ Occurrences(signals[1].listeners, 1) <= 1
    /\ last.op = "dispose" => Occurrences(signals[1].listeners, 1) = 0

\* the token of context 1 has fired
Fired == contexts[1].signal = 1 /\ signals[1].aborted

\* C30: addCleanup on a context whose token has already fired only queues the
\* cleanup: nothing is invoked and no abort listener is added; from then on
\* cleanups run only in dispose(), which runs the ones queued.
C30_CleanupAfterFiredTokenOnlyQueued ==
    [][/\ (Fired /\ last'.op = "addCleanup") =>
              /\ Invoked(trace') = <<>>
              /\ calls' = calls
              /\ contexts'[1].unsubscribers = Append(contexts[1].unsubscribers, last'.b)
              /\ signals' = signals
       /\ (Fired /\ Invoked(trace') # <<>>) => last'.op = "dispose"
       /\ (Fired /\ last'.op = "dispose") => Invoked(trace') = contexts[1].unsubscribers]_vars

\* dispose() has run a cleanup that was added after the token fired
C30_Witness ==
    /\ Fired
    /\ last.op = "dispose"
    /\ Invoked(trace) # <<>>

----------------------------------------------------------------------------
(* Claims about isActive after an explicit disposal, checked under SpecBridge *)

\* the contexts that a step unbinds: bound before it, not bound after it
Unbound(c) ==
    \E i \in 1..Len(boundElements) :
        /\ boundElements[i].value = c
        /\ \A j \in 1..Len(boundElements') : boundElements'[j].value # c

\* C29: dispose() called on a context, by unbindElement or by a dispose handle,
\* leaves isActive as it was: a context with no token, or with a token that has
\* not fired, is still active after its cleanups have run.
C29_DisposeLeavesIsActive ==
    [][last'.op \in {"unbindElement", "binding.dispose", "bridge.dispose", "bindElement"} =>
          \A c \in 1..Len(contexts) :
              Unbound(c) =>
                  /\ isActive(Store', c) <=> isActive(Store, c)
                  /\ (contexts[c].signal = 0 \/ ~signals[contexts[c].signal].aborted)
                         => isActive(Store', c)]_vars

\* unbindElement has run the cleanups of a context whose token has not fired
C29_Witness ==
    /\ last.op = "unbindElement"
    /\ Invoked(trace) # <<>>
    /\ \E c \in 1..Len(contexts) :
           /\ InvokedOf(trace, c) # <<>>
           /\ contexts[c].signal = 1
           /\ ~signals[1].aborted
           /\ isActive(Store, c)

----------------------------------------------------------------------------
(* A HandlerContext whose cleanups call back into it: context 1 as in SpecCtx, *)
(* with cleanups that register a cleanup or call dispose() when they run.      *)

\* context.addCleanup(fn), fn a closure that returns, registers or disposes
AddReentrantCleanup ==
    /\ Len(kinds) < MaxCleanups
    /\ \E k \in {"ok", "addCleanup", "dispose"} :
          LET s == addCleanup(Store, 1, k) IN Commit(s, Last("addCleanup", 1, Len(s.kinds), s))

NextReentrant == AddReentrantCleanup \/ Dispose \/ Abort

SpecReentrant == InitCtx /\ [][NextReentrant]_vars

\* C25: a cleanup registered from inside a cleanup that runs during dispose() is
\* not lost: when the disposal returns, the cleanup has been invoked or is in
\* the list that the next disposal runs.
C25_CleanupAddedDuringDisposeKept ==
    [][last'.op \in {"dispose", "abort"} =>
          \A fn \in (Len(kinds) + 1)..Len(kinds') :
              \/ fn \in Range(Invoked(trace'))
              \/ fn \in Range(contexts'[1].unsubscribers)]_vars

\* C26: when a cleanup calls dispose() on its own context from inside dispose(),
\* the outer dispose() returns and no cleanup has been invoked more than once.
C26_ReentrantDisposeRunsOnce ==
    [][last'.op = "dispose" =>
          /\ ~last'.threw
          /\ \A fn \in 1..Len(kinds') : Occurrences(Invoked(trace'), fn) <= 1]_vars

----------------------------------------------------------------------------
(* A DirectiveParser whose subscribers may unsubscribe themselves when they   *)
(* are invoked.                                                               *)

\* parser.on*Directive(callback), callback a new function that returns or that
\* calls the unsubscribe function this registration returns
SubscribeUnsubscribing ==
    /\ Len(handles) < MaxRegistrations
    /\ \E cat \in RegistryCategories, k \in {"returns", "unsubscribes"} :
          Return("on", cat, Len(subscribers) + 1,
                 keep(on(Store, cat, k), unsubscriber(cat, Len(subscribers) + 1)))

NextSelfUnsubscribe == SubscribeUnsubscribing \/ ProcessElement

SpecSelfUnsubscribe == InitRegistry /\ [][NextSelfUnsubscribe]_vars

\* C27: in a processElement where subscribers unsubscribe themselves while they
\* are invoked, every subscriber registered for a dispatched category is invoked
\* exactly once and no listener error is raised.
C27_SelfUnsubscribeKeepsDispatch ==
    [][last'.op = "processElement" =>
          /\ Of(trace', "console.error") = <<>>
          /\ \A cat \in RegistryCategories :
                 (\E l \in Range(events[cat]) : Occurrences(Callbacks(trace'), <<cat, l>>) > 0)
                     => \A l \in Range(events[cat]) : Occurrences(Callbacks(trace'), <<cat, l>>) = 1]_vars

====
